---- MODULE Spec2Model ----
(***************************************************************************)
(* Network synchronisation core of "Neon Dogfight" (hkniberg/dogfight).    *)
(*                                                                         *)
(* One host (star topology hub, spawn authority) and two clients, each     *)
(* running PeerNetworkManager + GameNetworkFacade + EntityManager +        *)
(* CollisionSystem + WeaponManager + PlayerManager, or a single peer       *)
(* running LocalNetworkManager with two local players.                     *)
(*                                                                         *)
(* Geometry (positions, distances) is an input of the actions: an action   *)
(* that tests "dist < r1 + r2" receives the outcome of the test from a     *)
(* small set.  Reliable ordered data channels are FIFO queues.             *)
(***************************************************************************)
EXTENDS Integers, Sequences, FiniteSets, TLC

(***************************************************************************)
(* Peers and players                                                       *)
(***************************************************************************)
Host == "p1"
Clients == {"p2", "p3"}
Peers == {Host} \cup Clients
PlayerIds == {1, 2, 3}

\* playerId handed out by the host: nextPlayerId++ in connect / join-request
AssignedId == [p \in Peers |-> IF p = "p1" THEN 1 ELSE IF p = "p2" THEN 2 ELSE 3]

(***************************************************************************)
(* Program constants (GAME_SETTINGS)                                       *)
(***************************************************************************)
maxStacks == 3
maxOnMap == 5
winScore == 3
asteroidHealth == 5
missileAsteroidDamage == 3
\* GAME_SETTINGS.canvas (and RemotePlayer.canvasWidth / canvasHeight), pixels
canvasWidth == 1600
canvasHeight == 900
\* GAME_SETTINGS.player.radius, GAME_SETTINGS.collision.playerPushDistance
playerRadius == 12
playerPushDistance == 10
\* GAME_SETTINGS.weapons.homingMissile: turnSpeed in milliradians a second,
\* lifetime in seconds
missileTurnSpeed == 1700
missileLifetime == 10
\* Math.PI in milliradians
Pi == 3142

\* positions are fixed-point numbers counted in 1/Unit of a pixel, so that
\* halves of a pixel and the first smoothing steps from whole pixels are
\* exact
Unit == 1000
Px(n) == n * Unit

Abs(d) == IF d < 0 THEN 0 - d ELSE d

(***************************************************************************)
(* Bounds of the model                                                     *)
(***************************************************************************)
MaxPowerUps == 2
MaxApply == 2
MaxAsteroids == 2
MaxSends == 2
MaxTicks == 2
MaxContacts == 2
MaxSpawned == 7

PowerUpIds == 0 .. (MaxSpawned - 1)
AsteroidIds == 0 .. (MaxAsteroids - 1)
\* SHIELD stacks, MULTISHOT is a timed flag mirrored on proxies, HOMING is
\* ammo that has no representation on a proxy.
PowerUpTypes == {"SHIELD", "HOMING"}
\* power-up types that load a one-shot weapon (Player.hasX flags)
AmmoTypes == {"HOMING", "LASER", "BOMB", "REVERSE", "ASTEROID_CHASE"}
WeaponTypes == {"bullets", "homing", "laser", "bomb"}

VARIABLES
    netKind,        \* network.constructor.name of the session: "Peer" | "Local"
    connections,    \* [peer -> set of peer ids]   PeerNetworkManager.connections (keys)
    connected,      \* [peer -> BOOLEAN]           PeerNetworkManager.connected
    closing,        \* set of <<peer, remote>>: a 'close' event of peer's connection to remote is pending
    promise,        \* [peer -> "none" | "pending" | "resolved" | "rejected" | "abandoned"]  the promise of
                    \* network.connect(); abandoned: still unsettled when its network manager was dropped
    chan,           \* [<<from, to>> -> Seq(message)]  data channels; <<p, p>> holds p's setTimeout(0) callbacks
    activePowerUps, \* authority's activePowerUps map (set of power-up records)
    nextId,         \* PowerUpSpawner.nextId
    activeAsteroid, \* authority's activeAsteroid # null
    nextAsteroidId, \* AsteroidSpawner.nextId
    state,          \* [peer -> "MENU" | "PLAYING"]     Game.state
    matchWon,       \* [peer -> BOOLEAN]                Game.matchWon
    players,        \* [peer -> set of player ids]      PlayerManager.players (keys)
    myPlayerIds,    \* [peer -> set of player ids]      PlayerManager.myPlayerIds
    alive,          \* [peer -> [player -> BOOLEAN]]    Player.alive / RemotePlayer.alive
    shields,        \* [peer -> [player -> 0..3]]       Player.shields / RemotePlayer.shields
    ammo,           \* [peer -> [player -> set]]        Player.hasHoming, hasBomb, hasLaser, ...
    reversed,       \* [peer -> [player -> BOOLEAN]]    Player.reversed / RemotePlayer.reversed
    invulnerable,   \* [peer -> [player -> BOOLEAN]]
    respawnTimers,  \* [peer -> set of player ids]      pending setTimeout(respawn)
    playerScores,   \* [peer -> [player -> Nat]]        Game.playerScores
    powerUps,       \* [peer -> Seq(power-up record)]   EntityManager.powerUps
    applied,        \* [peer -> [<<powerUpId, player>> -> Nat]] history: effect applications
    asteroid,       \* [peer -> asteroid record]        EntityManager.asteroid
    shrapnel,       \* [peer -> shrapnel record]        EntityManager.shrapnel
    weapons,        \* [peer -> set of <<owner, type>>] live projectiles held by the peer
    sent,           \* history: number of calls the game code made to send something
    tickError,      \* [peer -> BOOLEAN]                an exception escaped a tick of the peer
    ticks,          \* history: number of collision / explosion ticks run so far
    remote,         \* one RemotePlayer object: displayPos, targetPos, timed flags
    timed,          \* the timed flags of the Player object that RemotePlayer stands for
    position,       \* [player -> x, y, heading]   Player.x, Player.y, Player.angle at its owner
    homing,         \* the HomingMissile fired last: owner, target, angle, age
    winner,         \* [peer -> player id]  the winner endGame(winner) showed last
    step            \* history: the handler that made the last step

connVars == <<netKind, connections, connected, closing, promise>>
spawnVars == <<activePowerUps, nextId, activeAsteroid, nextAsteroidId>>
sessVars == <<state, matchWon>>
rosterVars == <<players, myPlayerIds>>
playerVars == <<alive, shields, ammo, reversed, invulnerable, respawnTimers>>
puVars == <<powerUps, applied>>
astVars == <<asteroid, shrapnel>>
kinVars == <<remote, timed, position, homing, winner>>

vars == <<netKind, connections, connected, closing, promise, chan, activePowerUps, nextId,
          activeAsteroid, nextAsteroidId, state, matchWon, players, myPlayerIds, alive, shields,
          ammo, reversed, invulnerable, respawnTimers, playerScores, powerUps, applied,
          asteroid, shrapnel, weapons, sent, tickError, ticks, remote, timed, position,
          homing, winner, step>>

(***************************************************************************)
(* Messages                                                                *)
(***************************************************************************)
NoMsg == [type |-> "none"]
NoPeer == "none"
NoPlayer == 0
NoAsteroidId == -1
\* WeaponManager.homingMissiles = []
NoMissile ==
    [owner |-> NoPlayer, target |-> NoPlayer, angle |-> 0, age |-> 0,
     peer |-> NoPeer]

\* EntityManager.asteroid = null
NoAsteroid ==
    [present |-> FALSE, id |-> NoAsteroidId, alive |-> FALSE, health |-> 0,
     chase |-> NoPlayer, chaseTime |-> 0]
\* EntityManager.shrapnel = []: bursts counts the createShrapnel() calls
\* per asteroid, live tells whether shards are in the air
NoShrapnel == [bursts |-> [a \in AsteroidIds |-> 0], live |-> FALSE]
\* new Asteroid(...): full health, alive, not chasing.  chase is the id of
\* chaseTarget; chaseActive and chaseTarget are set and cleared together,
\* so the chase is active exactly when chase is a player
NewAsteroid(id) ==
    [present |-> TRUE, id |-> id, alive |-> TRUE, health |-> asteroidHealth,
     chase |-> NoPlayer, chaseTime |-> 0]
\* Asteroid.startChasing
startChasing(a, target) == [a EXCEPT !.chase = target, !.chaseTime = 0]

PowerUpSpawnedMsg(pu) == [type |-> "powerup-spawned", powerup |-> pu]
PowerUpPickupMsg(pid, id, t) ==
    [type |-> "powerup-pickup", playerId |-> pid, powerupId |-> id, powerupType |-> t]
PowerUpCollectedMsg(id, pid, t) ==
    [type |-> "powerup-collected", id |-> id, playerId |-> pid, powerupType |-> t]
PlayerUpdateMsg(id, a, sh, inv) ==
    [type |-> "player-update", id |-> id, alive |-> a, shields |-> sh, invulnerable |-> inv]
WeaponFireMsg(pid, wt) == [type |-> "weapon-fire", playerId |-> pid, weaponType |-> wt]
PlayerDiedMsg(v, k) == [type |-> "player-died", victimId |-> v, killerId |-> k]
ReverseEffectMsg(pid, ids) ==
    [type |-> "reverse-effect", playerId |-> pid, affectedPlayerIds |-> ids]
AsteroidChaseMsg(t) == [type |-> "asteroid-chase", targetId |-> t]
AsteroidSpawnedMsg(id) == [type |-> "asteroid-spawned", id |-> id]
AsteroidDamagedMsg(d) == [type |-> "asteroid-damaged", damage |-> d]
AsteroidDestroyedMsg == [type |-> "asteroid-destroyed"]

Step(op, p, from, m, out) ==
    [op |-> op, peer |-> p, from |-> from, msg |-> m, out |-> out]

Links == Peers \X Peers

RECURSIVE SumLen(_, _)
SumLen(ch, es) ==
    IF es = {} THEN 0
    ELSE LET e == CHOOSE x \in es : TRUE IN Len(ch[e]) + SumLen(ch, es \ {e})

\* number of messages and timer callbacks not yet handled
InFlight == SumLen(chan, Links)

(***************************************************************************)
(* PeerNetworkManager: roles and sending                                   *)
(***************************************************************************)
isHost(p) == p = Host

\* GameNetworkFacade.isOnlineMode
isOnlineMode == netKind = "Peer"

\* PeerNetworkManager.broadcast(message, excludePeerId) on channel map ch
broadcast(ch, p, m, excludePeerId) ==
    [e \in Links |->
        IF e[1] = p /\ e[2] \in connections[p] /\ e[2] # excludePeerId /\ e[2] # p
        THEN Append(ch[e], m) ELSE ch[e]]

\* hostConn = connections.get(battleCode); if (hostConn) hostConn.send(message)
sendToHost(ch, p, m) ==
    IF Host \in connections[p] THEN [ch EXCEPT ![<<p, Host>>] = Append(@, m)] ELSE ch

\* the body shared by sendPlayerUpdate, sendWeaponFire, sendDeath,
\* sendReverseEffect and sendAsteroidChase of PeerNetworkManager
send(ch, p, m) ==
    IF ~connected[p] THEN ch
    ELSE IF isHost(p) THEN broadcast(ch, p, m, NoPeer)
    ELSE sendToHost(ch, p, m)

\* PeerNetworkManager.myPlayerId
myPlayerId(p) == AssignedId[p]

\* setTimeout(() => callback(data), 0) of LocalNetworkManager
later(ch, p, m) == [ch EXCEPT ![<<p, p>>] = Append(@, m)]

(***************************************************************************)
(* Initial states                                                          *)
(***************************************************************************)
ZeroApplied == [k \in PowerUpIds \X PlayerIds |-> 0]

\* A match in progress.  o.kind is the network manager in use, o.joined
\* the peers of the session, o.own the player ids each peer controls;
\* every joined peer holds its own players plus a proxy for every other
\* player.  o.shields / o.ammo: shield layers and loaded weapons the
\* players collected so far (proxies mirror the shields through
\* player-update); o.pus: power-ups spawned and announced to every peer;
\* o.ast: an asteroid was spawned and announced, and bullets have brought
\* its health down to o.astHealth on every peer; o.weapons: owners that
\* have projectiles in the air, known to every peer through weapon-fire;
\* o.scores: the kills counted so far, the same on every peer.
InitWith(o) ==
    LET all == UNION {o.own[q] : q \in o.joined}
        n == Len(o.pus)
    IN
    /\ netKind = o.kind
    /\ connections = [p \in Peers |->
                        IF o.kind = "Peer" /\ p \in o.joined
                        THEN (IF p = Host THEN o.joined \ {Host} ELSE {Host})
                        ELSE {}]
    /\ connected = [p \in Peers |-> o.kind = "Peer" /\ p \in o.joined]
    /\ closing = {}
    /\ promise = [p \in Peers |-> IF p \in o.joined THEN "resolved" ELSE "none"]
    /\ chan = [e \in Links |-> << >>]
    /\ activePowerUps = {o.pus[i] : i \in 1 .. n}
    /\ nextId = n
    /\ activeAsteroid = o.ast
    /\ nextAsteroidId = IF o.ast THEN 1 ELSE 0
    /\ state = [p \in Peers |-> IF p \in o.joined THEN "PLAYING" ELSE "MENU"]
    /\ matchWon = [p \in Peers |-> FALSE]
    /\ players = [p \in Peers |-> IF p \in o.joined THEN all ELSE {}]
    /\ myPlayerIds = [p \in Peers |-> IF p \in o.joined THEN o.own[p] ELSE {}]
    /\ alive = [p \in Peers |-> [i \in PlayerIds |-> p \in o.joined /\ i \in all]]
    /\ shields = [p \in Peers |-> [i \in PlayerIds |->
                        IF p \in o.joined /\ i \in all THEN o.shields[i] ELSE 0]]
    /\ ammo = [p \in Peers |-> [i \in PlayerIds |->
                        IF p \in o.joined /\ i \in o.own[p] THEN o.ammo[i] ELSE {}]]
    /\ reversed = [p \in Peers |-> [i \in PlayerIds |-> FALSE]]
    /\ invulnerable = [p \in Peers |-> [i \in PlayerIds |-> FALSE]]
    /\ respawnTimers = [p \in Peers |-> {}]
    /\ playerScores = [p \in Peers |-> [i \in PlayerIds |->
                        IF p \in o.joined /\ i \in all THEN o.scores[i] ELSE 0]]
    /\ powerUps = [p \in Peers |-> IF p \in o.joined THEN o.pus ELSE << >>]
    /\ applied = [p \in Peers |-> ZeroApplied]
    /\ asteroid = [p \in Peers |->
                        IF o.ast /\ p \in o.joined
                        THEN [NewAsteroid(0) EXCEPT !.health = o.astHealth]
                        ELSE NoAsteroid]
    /\ shrapnel = [p \in Peers |-> NoShrapnel]
    /\ weapons = [p \in Peers |-> IF p \in o.joined THEN o.weapons ELSE {}]
    /\ sent = 0
    /\ tickError = [p \in Peers |-> FALSE]
    /\ remote = o.remote
    /\ timed = o.timed
    /\ position = o.position
    /\ homing = NoMissile
    /\ winner = [p \in Peers |-> NoPlayer]
    /\ ticks = 0
    /\ step = Step("init", NoPeer, NoPeer, NoMsg, "")

OnePlayerEach == [p \in Peers |-> {AssignedId[p]}]
NoShields == [i \in PlayerIds |-> 0]
NoAmmo == [i \in PlayerIds |-> {}]
NoScores == [i \in PlayerIds |-> 0]

\* the timed power-up flags of a player object, all off: the constructors
\* of Player and RemotePlayer
NoFlags ==
    [invisible |-> FALSE, invisibleTime |-> 0, multiShot |-> FALSE, multiShotTime |-> 0,
     reversed |-> FALSE, reversedTime |-> 0]

\* positions are not followed: every player at the origin, heading east
AtOrigin == [i \in PlayerIds |-> [x |-> 0, y |-> 0, dir |-> [x |-> 1, y |-> 0]]]

\* new RemotePlayer(id, name, color): displayPos and targetPos at the origin
NewRemotePlayer ==
    [displayPos |-> [x |-> 0, y |-> 0], targetPos |-> [x |-> 0, y |-> 0],
     flags |-> NoFlags]

\* a fresh match: nothing spawned, nothing fired
Fresh(kind, joined, own) ==
    [kind |-> kind, joined |-> joined, own |-> own, shields |-> NoShields,
     ammo |-> NoAmmo, pus |-> << >>, ast |-> FALSE, astHealth |-> asteroidHealth,
     weapons |-> {}, scores |-> NoScores, remote |-> NewRemotePlayer,
     timed |-> NoFlags, position |-> AtOrigin]

\* online, host and both clients joined
InitOnline == InitWith(Fresh("Peer", Peers, OnePlayerEach))

\* online, host and one client joined
Duel == {"p1", "p2"}
InitDuel == InitWith(Fresh("Peer", Duel, OnePlayerEach))

\* Local mode: one machine, LocalNetworkManager, two locally controlled
\* players (ids 1 and 2 from LocalNetworkManager.connect)
LocalIds == {1, 2}
InitLocal == InitWith(Fresh("Local", {Host}, [p \in Peers |-> LocalIds]))

(***************************************************************************)
(* Power-ups: EntityManager, GameNetworkFacade, network managers           *)
(***************************************************************************)
\* local players in PlayerManager order (ids are added in ascending order)
SortedIds(S) ==
    LET F[k \in 0 .. 3] ==
            IF k = 0 THEN << >>
            ELSE IF k \in S THEN Append(F[k - 1], k) ELSE F[k - 1]
    IN F[3]

getLocalPlayers(p) == SortedIds(myPlayerIds[p])

\* Player.addShield
stackShield(s) == s + 1

addShield(s) == IF s < maxStacks THEN s + 1 ELSE s

\* EntityManager.removePowerUp
removePowerUp(list, id) == SelectSeq(list, LAMBDA x : x.id # id)

\* EntityManager.applyPowerUpToRemote, on the shield count of a proxy:
\* Math.min((player.shields || 0) + 1, 3); ammo types change nothing
applyPowerUpToRemote(s, type) ==
    IF type = "SHIELD" THEN (IF s + 1 < 3 THEN s + 1 ELSE 3) ELSE s

\* GameNetworkFacade.handlePowerUpCollected at peer p, on p's power-up
\* list pus, shield counts sh and application history app
handlePowerUpCollected(p, data, pus, sh, app) ==
    LET toRemote == /\ data.playerId \in players[p]
                    /\ data.playerId \notin myPlayerIds[p]
                    /\ data.powerupType # ""
    IN [pus |-> removePowerUp(pus, data.id),
        sh  |-> IF toRemote
                THEN [sh EXCEPT ![data.playerId] = applyPowerUpToRemote(@, data.powerupType)]
                ELSE sh,
        app |-> IF toRemote
                THEN [app EXCEPT ![<<data.id, data.playerId>>] = @ + 1]
                ELSE app]

\* EntityManager.applyPowerUp for local player pid, on the loop state acc
applyPowerUp(acc, pid, pu) ==
    [acc EXCEPT !.sh  = IF pu.type = "SHIELD" THEN [@ EXCEPT ![pid] = addShield(@)] ELSE @,
                !.am  = IF pu.type \in AmmoTypes
                        THEN [@ EXCEPT ![pid] = @ \cup {pu.type}] ELSE @,
                !.app = [@ EXCEPT ![<<pu.id, pid>>] = @ + 1],
                !.picked = @ \cup {pu.id}]

\* network.sendPowerUpPickup(playerId, powerupId, powerupType) of peer p:
\* LocalNetworkManager deletes and schedules the collected callback without
\* any validation; the host validates its own claim synchronously through
\* handleMessage(message, null); a client sends the claim to the host.
sendPowerUpPickup(p, acc, pid, pu) ==
    LET collected == PowerUpCollectedMsg(pu.id, pid, pu.type) IN
    IF netKind = "Local"
    THEN [acc EXCEPT !.act = {a \in @ : a.id # pu.id},
                     !.ch  = later(@, p, collected)]
    ELSE IF ~connected[p] THEN acc
    ELSE IF isHost(p)
    THEN IF \E a \in acc.act : a.id = pu.id
         THEN LET h == handlePowerUpCollected(p, collected, acc.pus, acc.sh, acc.app)
              IN [acc EXCEPT !.act = {a \in @ : a.id # pu.id},
                             !.ch  = broadcast(@, p, collected, NoPeer),
                             !.pus = h.pus, !.sh = h.sh, !.app = h.app]
         ELSE acc
    ELSE [acc EXCEPT !.ch = sendToHost(@, p, PowerUpPickupMsg(pid, pu.id, pu.type))]

\* the two nested loops of EntityManager.updatePowerUps; step k visits
\* power-up (k div m) + 1 and local player (k mod m) + 1.  There is no
\* break after a pickup and no test of powerUp.alive.
RECURSIVE pickupLoop(_, _, _, _)
pickupLoop(p, touch, k, acc) ==
    LET m == Len(getLocalPlayers(p)) IN
    IF k >= Len(powerUps[p]) * m THEN acc
    ELSE LET pu  == powerUps[p][(k \div m) + 1]
             pid == getLocalPlayers(p)[(k % m) + 1]
         IN IF alive[p][pid] /\ <<pu.id, pid>> \in touch
            THEN pickupLoop(p, touch, k + 1,
                            sendPowerUpPickup(p, applyPowerUp(acc, pid, pu), pid, pu))
            ELSE pickupLoop(p, touch, k + 1, acc)

\* EntityManager.updatePowerUps of peer p; touch is the set of
\* <<power-up id, local player>> pairs with dist < radius sum this tick
updatePowerUps(p, touch) ==
    /\ state[p] = "PLAYING"
    /\ myPlayerIds[p] # {}
    /\ touch # {}
    /\ sent < MaxSends
    /\ \A t \in touch : /\ \E i \in 1 .. Len(powerUps[p]) : powerUps[p][i].id = t[1]
                         /\ t[2] \in myPlayerIds[p] /\ alive[p][t[2]]
    /\ LET acc0 == [sh |-> shields[p], am |-> ammo[p], app |-> applied[p],
                     act |-> activePowerUps, ch |-> chan, pus |-> powerUps[p],
                     picked |-> {}]
            r == pickupLoop(p, touch, 0, acc0)
       IN /\ shields' = [shields EXCEPT ![p] = r.sh]
          /\ ammo' = [ammo EXCEPT ![p] = r.am]
          /\ applied' = [applied EXCEPT ![p] = r.app]
          /\ activePowerUps' = r.act
          /\ chan' = r.ch
          /\ powerUps' = [powerUps EXCEPT
                             ![p] = SelectSeq(r.pus, LAMBDA x : x.id \notin r.picked)]
    /\ sent' = sent + 1
    /\ step' = Step("updatePowerUps", p, NoPeer, NoMsg, "")
    /\ UNCHANGED <<kinVars, connVars, nextId, activeAsteroid, nextAsteroidId, sessVars, rosterVars,
                   alive, reversed, invulnerable, respawnTimers, playerScores, astVars,
                   weapons, tickError, ticks>>

UpdatePowerUps(p) ==
    \E touch \in SUBSET ({powerUps[p][i].id : i \in 1 .. Len(powerUps[p])} \X myPlayerIds[p]) :
        updatePowerUps(p, touch)

(***************************************************************************)
(* Spawn authority: network.update(dt)                                     *)
(***************************************************************************)
\* PeerNetworkManager.update: if (!this.isHost) return.  LocalNetworkManager
\* always runs the spawners.
everyPeerSpawns(p) == TRUE

runsSpawning(p) == netKind = "Local" \/ isHost(p)

\* this.activePowerUps.size < GAME_SETTINGS.powerups.maxOnMap
noCap(n) == TRUE

belowCap(n) == n < maxOnMap

\* if (!this.activeAsteroid)
ignoresActiveAsteroid(act) == TRUE

noActiveAsteroid(act) == ~act

\* Game.update: network.update(dt) of peer p, in LocalNetworkManager and
\* PeerNetworkManager.  puTimer / astTimer: the spawner's timer reached its
\* interval this tick; t is the random type the PowerUpSpawner draws; the
\* spawner has ids below idLimit left.  Both spawn callbacks end in the
\* facade handlers (spawnPowerUp / spawnAsteroid) of the peer's own game.
\* On a peer that does not run the spawners the call returns at once.
networkUpdateWithin(p, puTimer, astTimer, t, idLimit) ==
    /\ state[p] = "PLAYING"
    /\ myPlayerIds[p] # {}
    /\ LET doPu  == /\ runsSpawning(p)
                     /\ puTimer
                     /\ belowCap(Cardinality(activePowerUps))
                     /\ nextId < idLimit
           doAst == /\ runsSpawning(p)
                     /\ astTimer
                     /\ noActiveAsteroid(activeAsteroid)
                     /\ nextAsteroidId < MaxAsteroids
           pu    == [id |-> nextId, type |-> t]
           ch1   == IF doPu /\ netKind = "Peer"
                    THEN broadcast(chan, p, PowerUpSpawnedMsg(pu), NoPeer) ELSE chan
           ch2   == IF doAst /\ netKind = "Peer"
                    THEN broadcast(ch1, p, AsteroidSpawnedMsg(nextAsteroidId), NoPeer) ELSE ch1
       IN /\ doPu \/ doAst \/ ~runsSpawning(p)
          /\ activePowerUps' = IF doPu THEN activePowerUps \cup {pu} ELSE activePowerUps
          /\ nextId' = IF doPu THEN nextId + 1 ELSE nextId
          /\ powerUps' = IF doPu THEN [powerUps EXCEPT ![p] = Append(@, pu)] ELSE powerUps
          /\ activeAsteroid' = (activeAsteroid \/ doAst)
          /\ nextAsteroidId' = IF doAst THEN nextAsteroidId + 1 ELSE nextAsteroidId
          /\ asteroid' = IF doAst THEN [asteroid EXCEPT ![p] = NewAsteroid(nextAsteroidId)]
                          ELSE asteroid
          /\ chan' = ch2
          /\ step' = Step("update", p, NoPeer, NoMsg,
                          IF doPu /\ doAst THEN "both" ELSE IF doPu THEN "powerup"
                          ELSE IF doAst THEN "asteroid" ELSE "")
    /\ UNCHANGED <<kinVars, connVars, sessVars, rosterVars, playerVars, playerScores, applied,
                   shrapnel, weapons, sent, tickError, ticks>>

networkUpdate(p, puTimer, astTimer, t) ==
    networkUpdateWithin(p, puTimer, astTimer, t, MaxPowerUps)

\* a tick of the authority in which only the power-up spawner can fire
SpawnPowerUp == \E t \in PowerUpTypes : networkUpdate(Host, TRUE, FALSE, t)

(***************************************************************************)
(* PeerNetworkManager.handleMessage, one action per message type; the      *)
(* action includes the game callback the case invokes.  Channel <<p, p>>   *)
(* carries the deferred callbacks of LocalNetworkManager.                  *)
(***************************************************************************)
Incoming(p, from, type) ==
    /\ from = p \/ from \in connections[p]
    /\ chan[<<from, p>>] # << >>
    /\ Head(chan[<<from, p>>]).type = type

Consume(ch, p, from) == [ch EXCEPT ![<<from, p>>] = Tail(@)]

RecvPowerUpSpawned(p, from) ==
    /\ Incoming(p, from, "powerup-spawned")
    /\ LET data == Head(chan[<<from, p>>]) IN
        /\ powerUps' = [powerUps EXCEPT ![p] = Append(@, data.powerup)]
        /\ step' = Step("powerup-spawned", p, from, data, "")
    /\ chan' = Consume(chan, p, from)
    /\ UNCHANGED <<kinVars, connVars, spawnVars, sessVars, rosterVars, playerVars, playerScores,
                   applied, astVars, weapons, sent, tickError, ticks>>

RecvPowerUpPickup(p, from) ==
    /\ Incoming(p, from, "powerup-pickup")
    /\ LET data == Head(chan[<<from, p>>])
           collected == PowerUpCollectedMsg(data.powerupId, data.playerId, data.powerupType)
           valid == isHost(p) /\ \E a \in activePowerUps : a.id = data.powerupId
           h == handlePowerUpCollected(p, collected, powerUps[p], shields[p], applied[p])
       IN /\ activePowerUps' = IF valid THEN {a \in activePowerUps : a.id # data.powerupId}
                                         ELSE activePowerUps
          /\ chan' = IF valid THEN broadcast(Consume(chan, p, from), p, collected, NoPeer)
                               ELSE Consume(chan, p, from)
          /\ powerUps' = IF valid THEN [powerUps EXCEPT ![p] = h.pus] ELSE powerUps
          /\ shields' = IF valid THEN [shields EXCEPT ![p] = h.sh] ELSE shields
          /\ applied' = IF valid THEN [applied EXCEPT ![p] = h.app] ELSE applied
          /\ step' = Step("powerup-pickup", p, from, data,
                           IF valid THEN "accepted" ELSE "rejected")
    /\ UNCHANGED <<kinVars, connVars, nextId, activeAsteroid, nextAsteroidId, sessVars, rosterVars,
                   alive, ammo, reversed, invulnerable, respawnTimers, playerScores,
                   astVars, weapons, sent, tickError, ticks>>

RecvPowerUpCollected(p, from) ==
    /\ Incoming(p, from, "powerup-collected")
    /\ LET data == Head(chan[<<from, p>>])
           h == handlePowerUpCollected(p, data, powerUps[p], shields[p], applied[p])
       IN /\ powerUps' = [powerUps EXCEPT ![p] = h.pus]
          /\ shields' = [shields EXCEPT ![p] = h.sh]
          /\ applied' = [applied EXCEPT ![p] = h.app]
          /\ step' = Step("powerup-collected", p, from, data, "")
    /\ chan' = Consume(chan, p, from)
    /\ UNCHANGED <<kinVars, connVars, spawnVars, sessVars, rosterVars, alive, ammo, reversed,
                   invulnerable, respawnTimers, playerScores, astVars, weapons, sent,
                   tickError, ticks>>

(***************************************************************************)
(* Online power-up traffic                                                 *)
(***************************************************************************)
NextPickup ==
    \/ SpawnPowerUp
    \/ \E p \in Peers : UpdatePowerUps(p)
    \/ \E p \in Peers, from \in Peers : RecvPowerUpSpawned(p, from)
    \/ \E p \in Peers, from \in Peers : RecvPowerUpPickup(p, from)
    \/ \E p \in Peers, from \in Peers : RecvPowerUpCollected(p, from)

SpecPickup == InitOnline /\ [][NextPickup]_vars

(***************************************************************************)
(* Local mode power-up traffic                                             *)
(***************************************************************************)
NextLocal ==
    \/ SpawnPowerUp
    \/ UpdatePowerUps(Host)
    \/ RecvPowerUpCollected(Host, Host)

SpecLocal == InitLocal /\ [][NextLocal]_vars

(***************************************************************************)
(* Replayed powerup-collected events: the registered callback              *)
(* _onPowerUpCollectedCallback invoked with an event, possibly one that    *)
(* the peer has handled before.                                            *)
(***************************************************************************)
RECURSIVE SumApplied(_, _)
SumApplied(app, ks) ==
    IF ks = {} THEN 0
    ELSE LET k == CHOOSE x \in ks : TRUE
         IN app[k[1]][<<k[2], k[3]>>] + SumApplied(app, ks \ {k})

\* number of effect applications made so far, over all peers
AppliedTotal == SumApplied(applied, Peers \X PowerUpIds \X PlayerIds)

OnPowerUpCollected(p, data) ==
    /\ state[p] = "PLAYING"
    /\ data.id < nextId
    /\ AppliedTotal < MaxApply
    /\ LET h == handlePowerUpCollected(p, data, powerUps[p], shields[p], applied[p])
       IN /\ powerUps' = [powerUps EXCEPT ![p] = h.pus]
          /\ shields' = [shields EXCEPT ![p] = h.sh]
          /\ applied' = [applied EXCEPT ![p] = h.app]
    /\ step' = Step("powerup-collected", p, NoPeer, data, "")
    /\ UNCHANGED <<kinVars, connVars, chan, spawnVars, sessVars, rosterVars, alive, ammo,
                   reversed, invulnerable, respawnTimers, playerScores, astVars, weapons,
                   sent, tickError, ticks>>

NextReplay ==
    \/ SpawnPowerUp
    \/ \E p \in Peers, from \in Peers : RecvPowerUpSpawned(p, from)
    \/ \E p \in Peers, id \in PowerUpIds, c \in PlayerIds, t \in PowerUpTypes :
          OnPowerUpCollected(p, PowerUpCollectedMsg(id, c, t))

SpecReplay == InitDuel /\ [][NextReplay]_vars

(***************************************************************************)
(* Claims about power-up pickup                                            *)
(***************************************************************************)

\* C1 (as stated): when the spawn authority rejects a second pickup claim
\* for a power-up id, the effect of that power-up has not been applied to
\* the rejected claimant on any peer.
C1_RejectedClaimHasNoEffect ==
    (step.op = "powerup-pickup" /\ step.out = "rejected") =>
        \A p \in Peers : applied[p][<<step.msg.powerupId, step.msg.playerId>>] = 0

\* C7 (as stated): for every power-up id, at most one player ever receives
\* its effect, and no peer applies it more than once.
C7_AtMostOneCollector ==
    \A id \in PowerUpIds :
        /\ Cardinality({c \in PlayerIds :
                            \E p \in Peers : applied[p][<<id, c>>] > 0}) <= 1
        /\ \A p \in Peers, c \in PlayerIds : applied[p][<<id, c>>] <= 1

\* C8 (as stated): handling the same powerup-collected event a second time
\* on a peer, when the id is already gone from that peer's power-up list,
\* does not change any player's shield count on that peer.
C8_SecondApplicationNoEffect ==
    [][ (/\ step.op = "powerup-collected"
         /\ step'.op = "powerup-collected"
         /\ step'.peer = step.peer
         /\ step'.msg = step.msg)
        => shields'[step.peer] = shields[step.peer] ]_vars

(***************************************************************************)
(* Player state traffic: updates, weapon fire, deaths, special effects     *)
(***************************************************************************)
RECURSIVE sendEach(_, _, _)
sendEach(ch, p, msgs) ==
    IF msgs = << >> THEN ch ELSE sendEach(send(ch, p, Head(msgs)), p, Tail(msgs))

\* Game.update, the loop over the local players: an update is sent for
\* every local player that is alive, and for no other
SendPlayerUpdate(p) ==
    /\ state[p] = "PLAYING"
    /\ isOnlineMode
    /\ sent < MaxSends
    /\ LET ids == SelectSeq(getLocalPlayers(p), LAMBDA i : alive[p][i])
           msgs == [k \in 1 .. Len(ids) |->
                       PlayerUpdateMsg(ids[k], alive[p][ids[k]], shields[p][ids[k]],
                                       invulnerable[p][ids[k]])]
       IN /\ ids # << >>
          /\ chan' = sendEach(chan, p, msgs)
    /\ sent' = sent + 1
    /\ step' = Step("sendPlayerUpdate", p, NoPeer, NoMsg, "")
    /\ UNCHANGED <<kinVars, connVars, spawnVars, sessVars, rosterVars, playerVars, playerScores,
                   puVars, astVars, weapons, tickError, ticks>>

\* Player.fire: what the loaded weapons make of a fire command
fireType(am) ==
    IF "REVERSE" \in am THEN "reverse"
    ELSE IF "ASTEROID_CHASE" \in am THEN "asteroidChase"
    ELSE IF "BOMB" \in am THEN "bomb"
    ELSE IF "LASER" \in am THEN "laser"
    ELSE IF "HOMING" \in am THEN "homing"
    ELSE "bullets"

\* Player.fire: the hasX flags it clears
keepsAmmo(am) == {}

\* the has... flags that Player.fire sets to false
fireConsumes(am) ==
    IF "REVERSE" \in am THEN {"REVERSE"}
    ELSE IF "ASTEROID_CHASE" \in am THEN {"ASTEROID_CHASE"}
    ELSE IF "BOMB" \in am THEN {"BOMB", "HOMING"}
    ELSE IF "LASER" \in am THEN {"LASER"}
    ELSE {"HOMING"}

Min(S) == CHOOSE x \in S : \A y \in S : x <= y

\* Player.angle in milliradians, for a player heading along an axis (y
\* grows downwards)
angleOf(dir) ==
    IF dir.x = 1 THEN 0
    ELSE IF dir.y = 1 THEN Pi \div 2
    ELSE IF dir.x = -1 THEN Pi
    ELSE Pi + Pi \div 2

\* new HomingMissile(x, y, angle, color, this.id, missileTarget) in
\* Player.fire: missileTarget = this.reversed ? this : targetPlayer
newHomingMissile(p, id, missileTarget) ==
    [owner |-> id, target |-> missileTarget, angle |-> angleOf(position[id].dir), age |-> 0,
     peer |-> p]

\* WeaponManager.handlePlayerFire(playerCtrl, targetPlayer) for local
\* player id of peer p; target is the result of PlayerManager.findTarget
\* (NoPlayer: none)
HandlePlayerFire(p, id, target) ==
    /\ state[p] = "PLAYING"
    /\ id \in myPlayerIds[p]
    /\ alive[p][id]
    /\ target \in (players[p] \ {id}) \cup {NoPlayer}
    /\ sent < MaxSends
    /\ LET kind == fireType(ammo[p][id])
           opponents == players[p] \ {id}
           chaseTarget == IF target # NoPlayer THEN target
                          ELSE IF opponents # {} THEN Min(opponents) ELSE NoPlayer
           chases == /\ kind = "asteroidChase"
                     /\ asteroid[p].present /\ asteroid[p].alive
                     /\ chaseTarget # NoPlayer
           m == IF kind = "reverse" THEN ReverseEffectMsg(id, opponents)
                ELSE IF kind = "asteroidChase"
                     THEN (IF chases THEN AsteroidChaseMsg(chaseTarget) ELSE NoMsg)
                ELSE WeaponFireMsg(id, kind)
       IN /\ ammo' = [ammo EXCEPT ![p][id] = @ \ fireConsumes(@)]
          /\ reversed' = IF kind = "reverse"
                          THEN [reversed EXCEPT ![p] =
                                   [i \in PlayerIds |-> @[i] \/ i \in opponents]]
                          ELSE reversed
          /\ asteroid' = IF chases
                          THEN [asteroid EXCEPT ![p] = startChasing(@, chaseTarget)]
                          ELSE asteroid
          /\ weapons' = IF kind \in WeaponTypes
                         THEN [weapons EXCEPT ![p] = @ \cup {<<id, kind>>}]
                         ELSE weapons
          /\ homing' = IF kind = "homing"
                        THEN newHomingMissile(p, id, IF reversed[p][id] THEN id ELSE target)
                        ELSE homing
          /\ chan' = IF isOnlineMode /\ m # NoMsg THEN send(chan, p, m) ELSE chan
          /\ step' = Step("handlePlayerFire", p, NoPeer, m, kind)
    /\ sent' = sent + 1
    /\ UNCHANGED <<remote, timed, position, winner, connVars, spawnVars, sessVars, rosterVars, alive, shields,
                   invulnerable, respawnTimers, playerScores, puVars, shrapnel, tickError, ticks>>

\* GameNetworkFacade.broadcastDeath(victimId, killerId)
BroadcastDeath(p, victimId, killerId) ==
    /\ state[p] = "PLAYING"
    /\ isOnlineMode
    /\ sent < MaxSends
    /\ chan' = send(chan, p, PlayerDiedMsg(victimId, killerId))
    /\ sent' = sent + 1
    /\ step' = Step("broadcastDeath", p, NoPeer, PlayerDiedMsg(victimId, killerId), "")
    /\ UNCHANGED <<kinVars, connVars, spawnVars, sessVars, rosterVars, playerVars, playerScores,
                   puVars, astVars, weapons, tickError, ticks>>

\* the relay step of handleMessage for player-update, weapon-fire,
\* player-died and reverse-effect: only the host relays, only when the
\* message is not about its own player, and to every connection except
\* the one the message came in on
relayEcho(ch, p, from, data, subject) ==
    IF isHost(p) /\ subject # myPlayerId(p) THEN broadcast(ch, p, data, NoPeer) ELSE ch

relay(ch, p, from, data, subject) ==
    IF isHost(p) /\ subject # myPlayerId(p) THEN broadcast(ch, p, data, from) ELSE ch

\* case 'player-update' + GameNetworkFacade.handlePlayerUpdate +
\* RemotePlayer.onNetworkUpdate
RecvPlayerUpdate(p, from) ==
    /\ Incoming(p, from, "player-update")
    /\ LET data == Head(chan[<<from, p>>])
           isProxy == data.id \in players[p] /\ data.id \notin myPlayerIds[p]
       IN /\ chan' = relay(Consume(chan, p, from), p, from, data, data.id)
          /\ alive' = IF isProxy THEN [alive EXCEPT ![p][data.id] = data.alive] ELSE alive
          /\ shields' = IF isProxy THEN [shields EXCEPT ![p][data.id] = data.shields]
                         ELSE shields
          /\ invulnerable' = IF isProxy
                              THEN [invulnerable EXCEPT ![p][data.id] = data.invulnerable]
                              ELSE invulnerable
          /\ step' = Step("player-update", p, from, data, "")
    /\ UNCHANGED <<kinVars, connVars, spawnVars, sessVars, rosterVars, ammo, reversed,
                   respawnTimers, playerScores, puVars, astVars, weapons, sent, tickError, ticks>>

\* case 'weapon-fire' + GameNetworkFacade.handleWeaponFired +
\* WeaponManager.createWeaponFromNetwork
RecvWeaponFire(p, from) ==
    /\ Incoming(p, from, "weapon-fire")
    /\ LET data == Head(chan[<<from, p>>])
           creates == /\ data.playerId \notin myPlayerIds[p]
                      /\ data.playerId \in players[p]
                      /\ data.weaponType \in WeaponTypes
       IN /\ chan' = relay(Consume(chan, p, from), p, from, data, data.playerId)
          /\ weapons' = IF creates
                         THEN [weapons EXCEPT ![p] = @ \cup {<<data.playerId, data.weaponType>>}]
                         ELSE weapons
          /\ step' = Step("weapon-fire", p, from, data, "")
    /\ UNCHANGED <<kinVars, connVars, spawnVars, sessVars, rosterVars, playerVars, playerScores,
                   puVars, astVars, sent, tickError, ticks>>

\* GameNetworkFacade.handlePlayerDied without the isLocalPlayer early return
diesWithoutLocalCheck(p, data) == data.victimId \in players[p]

\* GameNetworkFacade.handlePlayerDied without the !victimCtrl early return
diesUnchecked(p, data) == data.victimId \notin myPlayerIds[p]

\* GameNetworkFacade.handlePlayerDied: the two early returns (victim is a
\* local player; victim unknown) are not taken
diesRemotely(p, data) ==
    /\ data.victimId \notin myPlayerIds[p]
    /\ data.victimId \in players[p]

\* case 'player-died' + GameNetworkFacade.handlePlayerDied
RecvPlayerDied(p, from) ==
    /\ Incoming(p, from, "player-died")
    /\ LET data == Head(chan[<<from, p>>])
           handled == diesRemotely(p, data)
           scores == handled /\ data.killerId # NoPlayer /\ data.killerId \in players[p]
           newScore == playerScores[p][data.killerId] + 1
       IN /\ chan' = relay(Consume(chan, p, from), p, from, data, data.victimId)
          /\ alive' = IF handled THEN [alive EXCEPT ![p][data.victimId] = FALSE] ELSE alive
          /\ playerScores' = IF scores
                              THEN [playerScores EXCEPT ![p][data.killerId] = newScore]
                              ELSE playerScores
          /\ matchWon' = IF scores /\ newScore >= winScore /\ ~matchWon[p]
                          THEN [matchWon EXCEPT ![p] = TRUE]
                          ELSE matchWon
          /\ winner' = IF scores /\ newScore >= winScore /\ ~matchWon[p]
                        THEN [winner EXCEPT ![p] = data.killerId]
                        ELSE winner
          /\ step' = Step("player-died", p, from, data,
                           IF handled THEN "handled" ELSE "ignored")
    /\ UNCHANGED <<remote, timed, position, homing, connVars, spawnVars, state, rosterVars,
                   shields, ammo, reversed, invulnerable, respawnTimers, puVars, astVars,
                   weapons, sent, tickError, ticks>>

\* case 'reverse-effect' + GameNetworkFacade.handleReverseEffect
RecvReverseEffect(p, from) ==
    /\ Incoming(p, from, "reverse-effect")
    /\ LET data == Head(chan[<<from, p>>])
           hit == data.affectedPlayerIds \cap players[p]
       IN /\ chan' = relay(Consume(chan, p, from), p, from, data, data.playerId)
          /\ reversed' = [reversed EXCEPT ![p] = [i \in PlayerIds |-> @[i] \/ i \in hit]]
          /\ step' = Step("reverse-effect", p, from, data, "")
    /\ UNCHANGED <<kinVars, connVars, spawnVars, sessVars, rosterVars, alive, shields, ammo,
                   invulnerable, respawnTimers, playerScores, puVars, astVars, weapons,
                   sent, tickError, ticks>>

\* case 'asteroid-chase' + GameNetworkFacade.handleAsteroidChase: the host
\* relays it whoever it is about
RecvAsteroidChase(p, from) ==
    /\ Incoming(p, from, "asteroid-chase")
    /\ LET data == Head(chan[<<from, p>>])
           chases == /\ asteroid[p].present /\ asteroid[p].alive
                     /\ data.targetId \in players[p]
       IN /\ chan' = IF isHost(p) THEN broadcast(Consume(chan, p, from), p, data, from)
                               ELSE Consume(chan, p, from)
          /\ asteroid' = IF chases
                          THEN [asteroid EXCEPT ![p] = startChasing(@, data.targetId)]
                          ELSE asteroid
          /\ step' = Step("asteroid-chase", p, from, data, "")
    /\ UNCHANGED <<kinVars, connVars, spawnVars, sessVars, rosterVars, playerVars, playerScores,
                   puVars, shrapnel, weapons, sent, tickError, ticks>>

(***************************************************************************)
(* Online traffic through the host: every message type a peer sends       *)
(***************************************************************************)
\* A match in progress in which power-up 0 and an asteroid are on the map
\* of every peer, player 2 has collected REVERSE and player 3
\* ASTEROID_CHASE.
InitRelay ==
    InitWith([Fresh("Peer", Peers, OnePlayerEach) EXCEPT
                 !.pus = << [id |-> 0, type |-> "SHIELD"] >>,
                 !.ast = TRUE,
                 !.ammo = [i \in PlayerIds |->
                              IF i = 2 THEN {"REVERSE"}
                              ELSE IF i = 3 THEN {"ASTEROID_CHASE"} ELSE {}]])

NextRelay ==
    \/ \E p \in Peers : SendPlayerUpdate(p)
    \/ \E p \in Peers : HandlePlayerFire(p, myPlayerId(p), NoPlayer)
    \/ \E p \in Peers, v \in PlayerIds :
          \E k \in {NoPlayer, (v % 3) + 1} : BroadcastDeath(p, v, k)
    \/ \E p \in Peers : UpdatePowerUps(p)
    \/ \E p \in Peers, from \in Peers : RecvPlayerUpdate(p, from)
    \/ \E p \in Peers, from \in Peers : RecvWeaponFire(p, from)
    \/ \E p \in Peers, from \in Peers : RecvPlayerDied(p, from)
    \/ \E p \in Peers, from \in Peers : RecvReverseEffect(p, from)
    \/ \E p \in Peers, from \in Peers : RecvAsteroidChase(p, from)
    \/ \E p \in Peers, from \in Peers : RecvPowerUpPickup(p, from)
    \/ \E p \in Peers, from \in Peers : RecvPowerUpCollected(p, from)

SpecRelay == InitRelay /\ [][NextRelay]_vars

(***************************************************************************)
(* Claims about the host relay                                             *)
(***************************************************************************)
\* the host has just run handleMessage on a message from client P
HostHandled(st) == st.peer = Host /\ st.from \in Clients

\* data was appended to the host's channel to exactly the peers in tos
HostSent(tos, data) ==
    \A q \in Peers :
        chan'[<<Host, q>>] = IF q \in tos THEN Append(chan[<<Host, q>>], data)
                             ELSE chan[<<Host, q>>]

\* the player a relayed message is about
Subject(data) ==
    IF data.type = "player-update" THEN data.id
    ELSE IF data.type = "player-died" THEN data.victimId
    ELSE data.playerId

\* C4 (as stated): every message the host receives from a connected peer P
\* is appended, unchanged, to the channel of every connected peer other
\* than P and to no other channel.
C4_HostForwardsEveryMessage ==
    [][ HostHandled(step') =>
            HostSent(connections[Host] \ {step'.from}, step'.msg) ]_vars

\* C4 (amended): the host forwards player-update, weapon-fire, player-died
\* and reverse-effect unchanged to every connected peer other than P, and
\* never to P, only when the message is not about the host's own player;
\* asteroid-chase is always forwarded that way; powerup-pickup is never
\* forwarded: a valid claim makes the host send powerup-collected to every
\* connected peer, P included, an invalid one makes it send nothing; every
\* other message is handled locally and sent to nobody.  Local dispatch:
\* a player-died for a proxy marks it dead on the host, a weapon-fire of a
\* proxy creates its projectile on the host.
C4_HostRelayTable ==
    [][ HostHandled(step') =>
          LET data == step'.msg
              P == step'.from
              others == connections[Host] \ {P}
          IN /\ IF data.type = "powerup-pickup"
                THEN IF \E a \in activePowerUps : a.id = data.powerupId
                     THEN HostSent(connections[Host],
                                   PowerUpCollectedMsg(data.powerupId, data.playerId,
                                                       data.powerupType))
                     ELSE HostSent({}, data)
                ELSE IF data.type = "asteroid-chase"
                     THEN HostSent(others, data)
                ELSE IF data.type \in {"player-update", "weapon-fire", "player-died",
                                        "reverse-effect"}
                     THEN IF Subject(data) # myPlayerId(Host)
                          THEN HostSent(others, data)
                          ELSE HostSent({}, data)
                ELSE HostSent({}, data)
             /\ (data.type = "player-died" /\ data.victimId # myPlayerId(Host))
                    => ~alive'[Host][data.victimId]
             /\ (data.type = "weapon-fire" /\ data.playerId # myPlayerId(Host))
                    => <<data.playerId, data.weaponType>> \in weapons'[Host] ]_vars

\* C4 witness: the host has just forwarded a client's player-died about
\* another client's player, and the copy is in flight to that other client
C4_Witness ==
    /\ HostHandled(step)
    /\ step.from = "p2"
    /\ step.op = "player-died"
    /\ step.msg.victimId = 3
    /\ chan[<<Host, "p3">>] # << >>
    /\ chan[<<Host, "p3">>][Len(chan[<<Host, "p3">>])] = step.msg
    /\ ~alive[Host][3]

(***************************************************************************)
(* Claims about death messages                                             *)
(***************************************************************************)
\* C2: when a peer handles a player-died message whose victim is one of its
\* own local players, that player's alive flag, every score and the
\* match-won flag of that peer stay as they were.
C2_OwnDeathMessageIgnored ==
    [][ (step'.op = "player-died" /\ step'.msg.victimId \in myPlayerIds[step'.peer]) =>
            /\ alive'[step'.peer] = alive[step'.peer]
            /\ playerScores'[step'.peer] = playerScores[step'.peer]
            /\ matchWon'[step'.peer] = matchWon[step'.peer] ]_vars

\* C2 witness: a client has just handled a relayed player-died naming its
\* own, living player as the victim of a known killer
C2_Witness ==
    /\ step.op = "player-died"
    /\ step.peer \in Clients
    /\ step.msg.victimId \in myPlayerIds[step.peer]
    /\ step.msg.killerId \in players[step.peer]
    /\ alive[step.peer][step.msg.victimId]
    /\ playerScores[step.peer][step.msg.killerId] = 0

(***************************************************************************)
(* Combat: CollisionSystem.checkAll, Game.handlePlayerHit,                 *)
(* WeaponManager.update / handleBombExplosion, EntityManager.update        *)
(***************************************************************************)
NoWeapon == <<NoPlayer, "none">>

\* one geometric test ("dist < r1 + r2", laser.checkHit) that is true in
\* the current tick
Contact(kind, i, w) == [kind |-> kind, player |-> i, weapon |-> w]

OfType(ws, t) == {w \in ws : w[2] = t}

\* tests against a player, and tests between weapons and asteroid
PlayerKinds == {"weapon-player", "shard-player", "asteroid-player"}
WeaponKinds == {"weapon-asteroid", "bullet-bomb"}

\* the tests that can come out true at peer p in the current state; an
\* asteroid that is not alive takes part in none (every check that
\* involves it returns on entry)
Contacts(p) ==
    LET flying == {w \in weapons[p] : w[2] \in {"bullets", "homing", "laser"}}
        rock == asteroid[p].present /\ asteroid[p].alive
    IN  {Contact("weapon-player", i, w) : i \in players[p], w \in flying}
        \cup {Contact("shard-player", i, NoWeapon) :
                 i \in IF shrapnel[p].live THEN players[p] ELSE {}}
        \cup {Contact("asteroid-player", i, NoWeapon) :
                 i \in IF rock THEN players[p] ELSE {}}
        \cup {Contact("weapon-asteroid", NoPlayer, w) :
                 w \in IF rock THEN flying \cup OfType(weapons[p], "bomb") ELSE {}}
        \cup {Contact("bullet-bomb", b[1], w) :
                 b \in OfType(weapons[p], "bomb"), w \in OfType(weapons[p], "bullets")}

RECURSIVE SetsUpTo(_, _)
SetsUpTo(S, n) ==
    IF n = 0 THEN {{}}
    ELSE LET T == SetsUpTo(S, n - 1) IN T \cup {t \cup {x} : t \in T, x \in S}

\* a set of <<key, element>> pairs as the sequence of its elements in
\* ascending key order (the iteration order of the nested loops)
RECURSIVE SortPairs(_)
SortPairs(S) ==
    IF S = {} THEN << >>
    ELSE LET m == CHOOSE x \in S : \A y \in S : x[1] <= y[1]
         IN << m[2] >> \o SortPairs(S \ {m})

\* the part of peer p's game a tick works on
TickState(p) ==
    [al |-> alive[p], sh |-> shields[p], am |-> ammo[p], rv |-> reversed[p],
     inv |-> invulnerable[p], wp |-> weapons[p], wp0 |-> weapons[p],
     sc |-> playerScores[p], won |-> matchWon[p], tm |-> respawnTimers[p],
     ast |-> asteroid[p], shr |-> shrapnel[p], act |-> activeAsteroid,
     ch |-> chan, err |-> FALSE, died |-> {}, pos |-> position, win |-> winner[p]]

\* CollisionSystem.canBeHit
canBeHit(g, i) == g.al[i] /\ ~g.inv[i]

\* playerManager.getPlayer(ownerId): attacker ? attacker.player : null
attackerOf(p, o) == IF o \in players[p] THEN o ELSE NoPlayer

\* Player.removeShield, and PlayerController.removeShield, whose fallback
\* decrements the shields of a RemotePlayer
removeShield(g, i) == IF g.sh[i] > 0 THEN [g EXCEPT !.sh[i] = @ - 1] ELSE g

survives(g, v) == g

\* Player.die
die(g, v) ==
    [g EXCEPT !.al[v] = FALSE, !.sh[v] = 0, !.rv[v] = FALSE, !.am[v] = {},
              !.wp = @ \ {<<v, "bullets">>}]

\* playerScores.set(attacker.id, currentScore + 1)
restartCount(sc, a) == [sc EXCEPT ![a] = 1]

addKill(sc, a) == [sc EXCEPT ![a] = @ + 1]

\* Game.handlePlayerHit(victim, attacker) at peer p.  A RemotePlayer has
\* neither removeShield nor die: both branches throw a TypeError for a
\* proxy.  Nothing is sent to the network.
handlePlayerHit(p, g, v, a) ==
    IF v \notin myPlayerIds[p] THEN [g EXCEPT !.err = TRUE]
    ELSE IF g.sh[v] > 0 THEN [g EXCEPT !.sh[v] = @ - 1]
    ELSE LET d == [die(g, v) EXCEPT !.died = @ \cup {<<v, a>>}]
             s == IF a # NoPlayer THEN [d EXCEPT !.sc = addKill(@, a)] ELSE d
         IN IF a # NoPlayer /\ s.sc[a] >= winScore /\ ~s.won
            THEN [s EXCEPT !.won = TRUE, !.win = a]
            ELSE IF ~s.won THEN [s EXCEPT !.tm = @ \cup {v}] ELSE s

\* the outer loop over getAllPlayers() with the inner loop over weapons:
\* key of the contact between player i and the weapon of owner o
loopKey(p, i, o) == 10 * i + (IF o \in myPlayerIds[p] THEN 0 ELSE 4) + o

PlayerHits(p, cs, t) ==
    SortPairs({<<loopKey(p, c.player, c.weapon[1]), c>> :
                  c \in {x \in cs : x.kind = "weapon-player" /\ x.weapon[2] = t}})

\* CollisionSystem.checkPlayerVsBullets: local bullets, then remoteBullets
checkPlayerVsBullets(p, cs, g0) ==
    LET seq == PlayerHits(p, cs, "bullets")
        hit(g, c) ==
            IF g.err \/ ~canBeHit(g0, c.player) \/ c.weapon \notin g.wp
                     \/ c.weapon[1] = c.player
            THEN g
            ELSE handlePlayerHit(p, [g EXCEPT !.wp = @ \ {c.weapon}], c.player,
                                 attackerOf(p, c.weapon[1]))
        F[k \in 0 .. Len(seq)] == IF k = 0 THEN g0 ELSE hit(F[k - 1], seq[k])
    IN F[Len(seq)]

\* CollisionSystem.checkPlayerVsHomingMissiles: neither missile.alive nor
\* the owner is tested
checkPlayerVsHomingMissiles(p, cs, g0) ==
    LET seq == PlayerHits(p, cs, "homing")
        hit(g, c) ==
            IF g.err \/ ~canBeHit(g0, c.player) \/ c.weapon \notin g.wp0
            THEN g
            ELSE handlePlayerHit(p, [g EXCEPT !.wp = @ \ {c.weapon}], c.player,
                                 attackerOf(p, c.weapon[1]))
        F[k \in 0 .. Len(seq)] == IF k = 0 THEN g0 ELSE hit(F[k - 1], seq[k])
    IN F[Len(seq)]

\* CollisionSystem.checkPlayerVsLasers: a shield absorbs the beam through
\* playerCtrl.removeShield()
checkPlayerVsLasers(p, cs, g0) ==
    LET seq == PlayerHits(p, cs, "laser")
        hit(g, c) ==
            IF g.err \/ ~canBeHit(g0, c.player) \/ c.weapon \notin g.wp0
                     \/ c.weapon[1] = c.player
            THEN g
            ELSE IF g.sh[c.player] > 0
            THEN [removeShield(g, c.player) EXCEPT !.wp = @ \ {c.weapon}]
            ELSE handlePlayerHit(p, g, c.player, attackerOf(p, c.weapon[1]))
        F[k \in 0 .. Len(seq)] == IF k = 0 THEN g0 ELSE hit(F[k - 1], seq[k])
    IN F[Len(seq)]

BodyHits(cs, kind) ==
    SortPairs({<<c.player, c>> : c \in {x \in cs : x.kind = kind}})

\* CollisionSystem.checkPlayerVsShrapnel
checkPlayerVsShrapnel(p, cs, g0) ==
    LET seq == BodyHits(cs, "shard-player")
        hit(g, c) ==
            IF g.err \/ ~canBeHit(g0, c.player) \/ ~g0.shr.live THEN g
            ELSE IF g.sh[c.player] > 0 THEN removeShield(g, c.player)
            ELSE handlePlayerHit(p, g, c.player, NoPlayer)
        F[k \in 0 .. Len(seq)] == IF k = 0 THEN g0 ELSE hit(F[k - 1], seq[k])
    IN F[Len(seq)]

\* CollisionSystem.checkPlayerVsAsteroid
checkPlayerVsAsteroid(p, cs, g0) ==
    LET seq == BodyHits(cs, "asteroid-player")
        hit(g, c) ==
            IF g.err \/ ~canBeHit(g0, c.player) THEN g
            ELSE IF g.sh[c.player] > 0 THEN removeShield(g, c.player)
            ELSE handlePlayerHit(p, g, c.player, NoPlayer)
        F[k \in 0 .. Len(seq)] == IF k = 0 THEN g0 ELSE hit(F[k - 1], seq[k])
    IN IF g0.err \/ ~g0.ast.present \/ ~g0.ast.alive THEN g0 ELSE F[Len(seq)]

\* isHostOrLocal of CollisionSystem.checkWeaponsVsAsteroid and of
\* WeaponManager.handleBombExplosion
anyPeerIsAuthority(p) == TRUE

isHostOrLocal(p) == netKind = "Local" \/ (netKind = "Peer" /\ isHost(p))

\* a takeDamage whose asteroid outlives health 0
takeDamageLate(a, amount) ==
    [a EXCEPT !.health = @ - amount,
              !.alive = IF a.health - amount < 0 THEN FALSE ELSE @]

\* Asteroid.takeDamage
takeDamage(a, amount) ==
    [a EXCEPT !.health = @ - amount,
              !.alive = IF a.health - amount <= 0 THEN FALSE ELSE @]

\* PeerNetworkManager.sendAsteroidDamage / sendAsteroidDestroyed
sendAsteroidDamage(ch, p, d) ==
    IF ~connected[p] \/ ~isHost(p) THEN ch
    ELSE broadcast(ch, p, AsteroidDamagedMsg(d), NoPeer)

sendAsteroidDestroyed(ch, p) ==
    IF ~connected[p] \/ ~isHost(p) THEN ch
    ELSE broadcast(ch, p, AsteroidDestroyedMsg, NoPeer)

\* network.notifyAsteroidDestroyed of LocalNetworkManager and of
\* PeerNetworkManager
notifyAsteroidDestroyed(p, g) ==
    IF netKind = "Local" THEN [g EXCEPT !.act = FALSE]
    ELSE IF isHost(p) THEN [g EXCEPT !.act = FALSE, !.ch = sendAsteroidDestroyed(@, p)]
    ELSE g

\* shrapnel.push(...asteroid.createShrapnel())
pushShrapnel(g) == [g EXCEPT !.shr.bursts[g.ast.id] = @ + 1, !.shr.live = TRUE]

\* asteroid.takeDamage + sendAsteroidDamage of the authority
damageByAuthority(p, g, amount) ==
    [g EXCEPT !.ast = takeDamage(@, amount),
              !.ch = IF netKind = "Peer" THEN sendAsteroidDamage(@, p, amount) ELSE @]

\* CollisionSystem.checkWeaponsVsAsteroid: local bullets, remote bullets,
\* homing missiles.  asteroid.alive is tested on entry only.
checkWeaponsVsAsteroid(p, cs, g0) ==
    LET key(w) == (IF w[2] = "homing" THEN 20
                   ELSE IF w[1] \in myPlayerIds[p] THEN 0 ELSE 10) + w[1]
        seq == SortPairs({<<key(c.weapon), c>> :
                   c \in {x \in cs : /\ x.kind = "weapon-asteroid"
                                      /\ x.weapon[2] \in {"bullets", "homing"}}})
        bullet(g, w) ==
            LET d == damageByAuthority(p, [g EXCEPT !.wp = @ \ {w}], 1) IN
            IF w \notin g.wp THEN g
            ELSE IF w[1] \in myPlayerIds[p]
            THEN (IF ~isHostOrLocal(p) THEN [g EXCEPT !.wp = @ \ {w}]
                  ELSE IF ~d.ast.alive THEN notifyAsteroidDestroyed(p, d) ELSE d)
            ELSE (IF ~(isHostOrLocal(p) /\ netKind = "Peer" /\ isHost(p)) THEN g
                  ELSE IF ~d.ast.alive THEN notifyAsteroidDestroyed(p, d) ELSE d)
        missile(g, w) ==
            LET d == damageByAuthority(p, [g EXCEPT !.wp = @ \ {w}], missileAsteroidDamage) IN
            IF w \notin g.wp0 THEN g
            ELSE IF ~isHostOrLocal(p) THEN [g EXCEPT !.wp = @ \ {w}]
            ELSE IF ~d.ast.alive THEN notifyAsteroidDestroyed(p, pushShrapnel(d)) ELSE d
        hit(g, c) == IF c.weapon[2] = "homing" THEN missile(g, c.weapon)
                     ELSE bullet(g, c.weapon)
        F[k \in 0 .. Len(seq)] == IF k = 0 THEN g0 ELSE hit(F[k - 1], seq[k])
    IN IF g0.err \/ ~g0.ast.present \/ ~g0.ast.alive THEN g0 ELSE F[Len(seq)]

\* Bomb.detonate: detonated = true, alive = false; the bomb stays in the
\* list until WeaponManager.update filters it
detonate(g, o) ==
    IF <<o, "bomb">> \in g.wp
    THEN [g EXCEPT !.wp = (@ \ {<<o, "bomb">>}) \cup {<<o, "detonated">>}]
    ELSE g

\* CollisionSystem.checkBombsVsBullets: local bullets set bombs off
checkBombsVsBullets(p, cs, g0) ==
    LET seq == SortPairs({<<10 * c.player + c.weapon[1], c>> :
                   c \in {x \in cs : x.kind = "bullet-bomb"}})
        hit(g, c) ==
            IF \/ <<c.player, "bomb">> \notin g0.wp
               \/ c.weapon \notin g.wp
               \/ c.weapon[1] \notin myPlayerIds[p]
            THEN g
            ELSE detonate([g EXCEPT !.wp = @ \ {c.weapon}], c.player)
        F[k \in 0 .. Len(seq)] == IF k = 0 THEN g0 ELSE hit(F[k - 1], seq[k])
    IN IF g0.err THEN g0 ELSE F[Len(seq)]

\* CollisionSystem.checkBombsVsAsteroid
checkBombsVsAsteroid(p, cs, g0) ==
    LET seq == SortPairs({<<c.weapon[1], c>> :
                   c \in {x \in cs : x.kind = "weapon-asteroid" /\ x.weapon[2] = "bomb"}})
        F[k \in 0 .. Len(seq)] ==
            IF k = 0 THEN g0 ELSE detonate(F[k - 1], seq[k].weapon[1])
    IN IF g0.err \/ ~g0.ast.present \/ ~g0.ast.alive THEN g0 ELSE F[Len(seq)]

\* CollisionSystem.checkLasersVsAsteroid: the asteroid blocks the beam
checkLasersVsAsteroid(p, cs, g0) ==
    LET hitLasers == {c.weapon : c \in {x \in cs : /\ x.kind = "weapon-asteroid"
                                                    /\ x.weapon[2] = "laser"}}
    IN IF g0.err \/ ~g0.ast.present \/ ~g0.ast.alive THEN g0
       ELSE [g0 EXCEPT !.wp = @ \ hitLasers]

\* getDistance: the delta on one axis, taken the short way round the arena
wrappedDelta(d, size) ==
    IF Abs(d) > size \div 2 THEN (IF d > 0 THEN d - size ELSE d + size) ELSE d

\* getDistance(a.x, a.y, b.x, b.y, canvasWidth, canvasHeight) for two
\* points that lie on one horizontal or vertical line of the torus
getDistance(a, b) ==
    Abs(wrappedDelta(b.x - a.x, Px(canvasWidth)))
        + Abs(wrappedDelta(b.y - a.y, Px(canvasHeight)))

\* (cos, sin) of Math.atan2(b.y - a.y, b.x - a.x), for two points on one
\* horizontal or vertical line: the coordinates are taken as they are
atan2Unit(a, b) ==
    LET dx == b.x - a.x
        dy == b.y - a.y
    IN IF dy = 0 THEN [x |-> IF dx < 0 THEN -1 ELSE 1, y |-> 0]
       ELSE [x |-> 0, y |-> IF dy < 0 THEN -1 ELSE 1]

\* player.angle = angle; player.x += cos(angle) * d; player.y += sin(angle) * d
pushAlong(q, u, d) == [q EXCEPT !.x = @ + u.x * d, !.y = @ + u.y * d, !.dir = u]

\* CollisionSystem.handlePlayerPlayerCollision(p1, p2, dist) at peer p
handlePlayerPlayerCollision(p, g, p1, p2, dist) ==
    LET p1HasShield == g.sh[p1] > 0
        p2HasShield == g.sh[p2] > 0
    IN IF p1HasShield /\ p2HasShield
       THEN LET collision == atan2Unit(g.pos[p1], g.pos[p2])
                back == [x |-> 0 - collision.x, y |-> 0 - collision.y]
                overlap == (Px(playerRadius) + Px(playerRadius)) - dist
                pushDistance == (overlap \div 2) + Px(playerPushDistance)
                h == removeShield(removeShield(g, p1), p2)
            IN [h EXCEPT !.pos[p1] = pushAlong(@, back, pushDistance),
                         !.pos[p2] = pushAlong(@, collision, pushDistance)]
       ELSE IF p1HasShield /\ ~p2HasShield
       THEN LET h == handlePlayerHit(p, g, p2, p1)
                away == atan2Unit(g.pos[p2], g.pos[p1])
            IN [removeShield(h, p1) EXCEPT
                    !.pos[p1] = pushAlong(@, away, Px(playerPushDistance))]
       ELSE IF ~p1HasShield /\ p2HasShield
       THEN LET h == handlePlayerHit(p, g, p1, p2)
                away == atan2Unit(g.pos[p1], g.pos[p2])
            IN [removeShield(h, p2) EXCEPT
                    !.pos[p2] = pushAlong(@, away, Px(playerPushDistance))]
       ELSE handlePlayerHit(p, handlePlayerHit(p, g, p1, NoPlayer), p2, NoPlayer)

\* CollisionSystem.checkPlayerVsPlayer: every pair of local players, in
\* list order
checkPlayerVsPlayer(p, g0) ==
    LET ids == myPlayerIds[p]
        seq == SortPairs({<<10 * c[1] + c[2], c>> : c \in {d \in ids \X ids : d[1] < d[2]}})
        hit(g, c) ==
            LET p1 == c[1]
                p2 == c[2]
                dist == getDistance(g.pos[p1], g.pos[p2])
            IN IF g.err \/ ~g.al[p1] \/ ~g.al[p2] \/ g.inv[p1] \/ g.inv[p2] THEN g
               ELSE IF dist < Px(playerRadius) + Px(playerRadius)
               THEN handlePlayerPlayerCollision(p, g, p1, p2, dist)
               ELSE g
        F[k \in 0 .. Len(seq)] == IF k = 0 THEN g0 ELSE hit(F[k - 1], seq[k])
    IN IF Cardinality(ids) < 2 THEN g0 ELSE F[Len(seq)]

\* CollisionSystem.checkAll on the contacts cs of this tick; an exception
\* thrown by a check skips the checks after it.
checkAll(p, cs, g0) ==
    LET g1 == checkPlayerVsBullets(p, cs, g0)
        g2 == checkPlayerVsHomingMissiles(p, cs, g1)
        g3 == checkPlayerVsLasers(p, cs, g2)
        g4 == checkPlayerVsShrapnel(p, cs, g3)
        g5 == checkPlayerVsAsteroid(p, cs, g4)
        gp == checkPlayerVsPlayer(p, g5)
        g6 == checkWeaponsVsAsteroid(p, cs, gp)
        g7 == checkBombsVsBullets(p, cs, g6)
        g8 == checkBombsVsAsteroid(p, cs, g7)
    IN checkLasersVsAsteroid(p, cs, g8)

\* WeaponManager.handleBombExplosion for the bomb of owner o: inRadius are
\* the local players, astIn tells whether the asteroid is, within
\* explosionRadius
handleBombExplosion(p, g0, o, inRadius, astIn) ==
    LET seq == SortedIds(myPlayerIds[p] \cap inRadius)
        hit(g, i) == IF ~g.al[i] \/ g.inv[i] THEN g
                     ELSE handlePlayerHit(p, g, i, attackerOf(p, o))
        F[k \in 0 .. Len(seq)] == IF k = 0 THEN g0 ELSE hit(F[k - 1], seq[k])
        g1 == F[Len(seq)]
    IN IF g1.ast.present /\ g1.ast.alive /\ astIn /\ isHostOrLocal(p)
       THEN notifyAsteroidDestroyed(p, pushShrapnel([g1 EXCEPT !.ast.alive = FALSE]))
       ELSE g1

\* the state a tick leaves behind at peer p
Commit(p, g, op, info) ==
    /\ alive' = [alive EXCEPT ![p] = g.al]
    /\ shields' = [shields EXCEPT ![p] = g.sh]
    /\ ammo' = [ammo EXCEPT ![p] = g.am]
    /\ reversed' = [reversed EXCEPT ![p] = g.rv]
    /\ weapons' = [weapons EXCEPT ![p] = g.wp]
    /\ playerScores' = [playerScores EXCEPT ![p] = g.sc]
    /\ matchWon' = [matchWon EXCEPT ![p] = g.won]
    /\ respawnTimers' = [respawnTimers EXCEPT ![p] = g.tm]
    /\ asteroid' = [asteroid EXCEPT ![p] = g.ast]
    /\ shrapnel' = [shrapnel EXCEPT ![p] = g.shr]
    /\ activeAsteroid' = g.act
    /\ chan' = g.ch
    /\ tickError' = [tickError EXCEPT ![p] = @ \/ g.err]
    /\ position' = g.pos
    /\ ticks' = ticks + 1
    /\ step' = Step(op, p, NoPeer, [type |-> "tick", info |-> info, died |-> g.died],
                    IF g.err THEN "error" ELSE "ok")
    /\ winner' = [winner EXCEPT ![p] = g.win]
    /\ UNCHANGED <<remote, timed, homing, connVars, activePowerUps, nextId, nextAsteroidId, state,
                   rosterVars, invulnerable, puVars, sent>>

\* Game.update: collisionSystem.checkAll() of one tick of peer p in which
\* only tests of the given kinds come out true
CheckAll(p, kinds) ==
    /\ state[p] = "PLAYING"
    /\ Cardinality(myPlayerIds[p]) = 1
    /\ ticks < MaxTicks
    /\ \E cs \in SetsUpTo({c \in Contacts(p) : c.kind \in kinds}, MaxContacts) \ {{}} :
          Commit(p, checkAll(p, cs, TickState(p)), "checkAll", {c.kind : c \in cs})

\* Game.update: weaponManager.update() of a tick in which the bomb of owner
\* o explodes.  A bomb that detonates in Bomb.update (timer, proximity)
\* stays in the list with detonated = true, and explodes again in the next
\* update, which filters it; so does a bomb set off by a collision check.
BombExplosion(p, o, inRadius, astIn) ==
    /\ state[p] = "PLAYING"
    /\ Cardinality(myPlayerIds[p]) = 1
    /\ ticks < MaxTicks
    /\ inRadius \subseteq myPlayerIds[p]
    /\ \E t \in {"bomb", "detonated"} :
          /\ <<o, t>> \in weapons[p]
          /\ astIn => asteroid[p].present
          /\ LET g0 == TickState(p)
                 g1 == [g0 EXCEPT !.wp = IF t = "bomb"
                                         THEN (@ \ {<<o, t>>}) \cup {<<o, "detonated">>}
                                         ELSE @ \ {<<o, t>>}]
             IN Commit(p, handleBombExplosion(p, g1, o, inRadius, astIn), "bombExplosion",
                       {"blast"})

\* if (this.state === 'PLAYING' && !this.matchWon)
stillPlaying(p) == state[p] = "PLAYING"

timerDropped(p) == FALSE

mayRespawn(p) == state[p] = "PLAYING" /\ ~matchWon[p]

\* the setTimeout callback of Game.handlePlayerHit + Player.respawn
Respawn(p, v) ==
    /\ v \in respawnTimers[p]
    /\ respawnTimers' = [respawnTimers EXCEPT ![p] = @ \ {v}]
    /\ LET back == mayRespawn(p) IN
        /\ alive' = IF back THEN [alive EXCEPT ![p][v] = TRUE] ELSE alive
        /\ invulnerable' = IF back THEN [invulnerable EXCEPT ![p][v] = TRUE]
                            ELSE invulnerable
    /\ step' = Step("respawn", p, NoPeer, NoMsg, "")
    /\ UNCHANGED <<kinVars, connVars, spawnVars, sessVars, rosterVars, shields, ammo, reversed,
                   playerScores, puVars, astVars, weapons, sent, chan, tickError, ticks>>

\* EntityManager.updateAsteroid in a tick in which asteroid.update(dt)
\* returns false: the asteroid is not alive
UpdateAsteroid(p) ==
    /\ state[p] = "PLAYING"
    /\ asteroid[p].present
    /\ ~asteroid[p].alive
    /\ LET g == notifyAsteroidDestroyed(p, TickState(p)) IN
        /\ activeAsteroid' = g.act
        /\ chan' = g.ch
    /\ asteroid' = [asteroid EXCEPT ![p] = NoAsteroid]
    /\ step' = Step("updateAsteroid", p, NoPeer, NoMsg, "")
    /\ UNCHANGED <<kinVars, connVars, activePowerUps, nextId, nextAsteroidId, sessVars, rosterVars,
                   playerVars, playerScores, puVars, shrapnel, weapons, sent, tickError,
                   ticks>>

\* a tick of the authority in which only the asteroid spawner fires
SpawnAsteroid == networkUpdate(Host, FALSE, TRUE, "SHIELD")

\* case 'asteroid-spawned' + EntityManager.spawnAsteroid
RecvAsteroidSpawned(p, from) ==
    /\ Incoming(p, from, "asteroid-spawned")
    /\ LET data == Head(chan[<<from, p>>]) IN
        /\ asteroid' = [asteroid EXCEPT ![p] = NewAsteroid(data.id)]
        /\ step' = Step("asteroid-spawned", p, from, data, "")
    /\ chan' = Consume(chan, p, from)
    /\ UNCHANGED <<kinVars, connVars, spawnVars, sessVars, rosterVars, playerVars, playerScores,
                   puVars, shrapnel, weapons, sent, tickError, ticks>>

\* case 'asteroid-damaged' + EntityManager.damageAsteroid
RecvAsteroidDamaged(p, from) ==
    /\ Incoming(p, from, "asteroid-damaged")
    /\ LET data == Head(chan[<<from, p>>]) IN
        /\ asteroid' = IF asteroid[p].present /\ asteroid[p].alive
                       THEN [asteroid EXCEPT ![p] = takeDamage(@, data.damage)]
                       ELSE asteroid
        /\ step' = Step("asteroid-damaged", p, from, data, "")
    /\ chan' = Consume(chan, p, from)
    /\ UNCHANGED <<kinVars, connVars, spawnVars, sessVars, rosterVars, playerVars, playerScores,
                   puVars, shrapnel, weapons, sent, tickError, ticks>>

\* case 'asteroid-destroyed' + EntityManager.destroyAsteroid
RecvAsteroidDestroyed(p, from) ==
    /\ Incoming(p, from, "asteroid-destroyed")
    /\ LET data == Head(chan[<<from, p>>])
           destroys == asteroid[p].present /\ asteroid[p].alive
       IN /\ shrapnel' = IF destroys
                         THEN [shrapnel EXCEPT ![p].bursts[asteroid[p].id] = @ + 1,
                                               ![p].live = TRUE]
                         ELSE shrapnel
          /\ asteroid' = IF destroys THEN [asteroid EXCEPT ![p] = NoAsteroid] ELSE asteroid
          /\ step' = Step("asteroid-destroyed", p, from, data, "")
    /\ chan' = Consume(chan, p, from)
    /\ UNCHANGED <<kinVars, connVars, spawnVars, sessVars, rosterVars, playerVars, playerScores,
                   puVars, weapons, sent, tickError, ticks>>

\* A match in progress: an asteroid is on the map, player 2 carries a
\* shield, and every peer holds the projectiles that are in the air.
InitCombat ==
    InitWith([Fresh("Peer", Peers, OnePlayerEach) EXCEPT
                 !.ast = TRUE,
                 !.shields = [i \in PlayerIds |-> IF i = 2 THEN 1 ELSE 0],
                 !.weapons = {<<1, "bullets">>, <<3, "laser">>, <<2, "bomb">>}])

\* ticks in which players are hit
NextCombat ==
    \/ \E p \in Peers : CheckAll(p, PlayerKinds)
    \/ \E p \in Peers, o \in PlayerIds :
          \E inRadius \in SUBSET myPlayerIds[p] : BombExplosion(p, o, inRadius, FALSE)
    \/ \E p \in Peers, v \in PlayerIds : Respawn(p, v)

SpecCombat == InitCombat /\ [][NextCombat]_vars

\* A match in progress: bullets have brought the asteroid down to one
\* health point, and every peer holds the projectiles player 2 has in the
\* air.
InitAsteroid ==
    InitWith([Fresh("Peer", Peers, OnePlayerEach) EXCEPT
                 !.ast = TRUE,
                 !.astHealth = 1,
                 !.weapons = {<<2, "bullets">>, <<2, "homing">>, <<2, "bomb">>}])

\* ticks in which weapons meet the asteroid
NextAsteroid ==
    \/ \E p \in Peers : CheckAll(p, WeaponKinds)
    \/ \E p \in Peers, o \in PlayerIds, astIn \in BOOLEAN : BombExplosion(p, o, {}, astIn)
    \/ \E p \in Peers : UpdateAsteroid(p)
    \/ SpawnAsteroid
    \/ \E p \in Peers, from \in Peers : RecvAsteroidSpawned(p, from)
    \/ \E p \in Peers, from \in Peers : RecvAsteroidDamaged(p, from)
    \/ \E p \in Peers, from \in Peers : RecvAsteroidDestroyed(p, from)

SpecAsteroid == InitAsteroid /\ [][NextAsteroid]_vars

\* the ticks that hit players or blow up bombs
IsCombatTick(st) == st.op \in {"checkAll", "bombExplosion"}

Proxies(p) == players[p] \ myPlayerIds[p]

\* C5: a collision check or a bomb blast of a peer never changes whether
\* the proxy of a remote player is alive, never takes a shield from a
\* proxy, and changes no score in a tick in which no local player died.
C5_ProxiesUntouchedByCollisions ==
    [][\A p \in Peers :
          (IsCombatTick(step') /\ step'.peer = p) =>
              /\ \A i \in Proxies(p) : /\ alive'[p][i] = alive[p][i]
                                       /\ shields'[p][i] = shields[p][i]
              /\ step'.msg.died = {} => playerScores'[p] = playerScores[p]]_vars

OnChannel(ch, p, m) ==
    \E q \in connections[p] : \E k \in 1 .. Len(ch[<<p, q>>]) : ch[<<p, q>>][k] = m

\* C6: in online mode, a tick in which a local player of a peer dies of an
\* unshielded hit leaves a player-died message that names the victim and
\* the attacker (NoPlayer for none) on a channel of that peer.
C6_DeathIsBroadcast ==
    [][\A p \in Peers :
          (isOnlineMode /\ IsCombatTick(step') /\ step'.peer = p) =>
              \A d \in step'.msg.died : OnChannel(chan', p, PlayerDiedMsg(d[1], d[2]))]_vars

\* the messages only the spawn authority may send
AuthorityTypes == {"asteroid-damaged", "asteroid-destroyed"}

\* C9: a step of an online client other than the handling of
\* asteroid-spawned, asteroid-damaged or asteroid-destroyed from the host
\* leaves a living asteroid of that client alive and at the same health,
\* creates no shrapnel there, and no client ever has an asteroid-damaged or
\* asteroid-destroyed message on a channel of its own.
C9_ClientNeverDamagesAsteroid ==
    [][\A c \in Clients :
          LET told == /\ step'.peer = c
                      /\ step'.from = Host
                      /\ step'.op \in {"asteroid-spawned"} \cup AuthorityTypes
          IN /\ (isOnlineMode /\ ~told /\ asteroid[c].present /\ asteroid[c].alive) =>
                    /\ asteroid'[c].present /\ asteroid'[c].alive
                    /\ asteroid'[c].id = asteroid[c].id
                    /\ asteroid'[c].health = asteroid[c].health
             /\ (isOnlineMode /\ ~told) => shrapnel'[c] = shrapnel[c]
             /\ \A q \in Peers : \A k \in 1 .. Len(chan'[<<c, q>>]) :
                    chan'[<<c, q>>][k].type \notin AuthorityTypes]_vars

\* the client of player 2 has run a tick in which its own bullet met the
\* living asteroid: the bullet is gone, the asteroid is as it was
C9_Witness ==
    /\ step.peer = "p2"
    /\ step.op = "checkAll" /\ "weapon-asteroid" \in step.msg.info
    /\ <<2, "bullets">> \notin weapons["p2"]
    /\ asteroid["p2"].present /\ asteroid["p2"].alive
    /\ asteroid["p2"].health = 1

\* C10: no peer creates the shrapnel of an asteroid twice, and a peer that
\* lets go of an asteroid whose health is 0 or less has created the
\* shrapnel of that asteroid once.
C10_ShrapnelExactlyOnce ==
    [][\A p \in Peers :
          /\ \A a \in AsteroidIds : shrapnel'[p].bursts[a] <= 1
          /\ ( /\ asteroid[p].present
               /\ asteroid[p].health <= 0
               /\ asteroid'[p].id # asteroid[p].id ) =>
                 shrapnel'[p].bursts[asteroid[p].id] = 1]_vars

(***************************************************************************)
(* Host loss: Game.returnToMenu, network.disconnect, the 'close' event of  *)
(* a DataConnection, PeerNetworkManager.handleDisconnect,                  *)
(* GameNetworkFacade.handlePlayerLeft                                      *)
(***************************************************************************)
\* the id 'host' of the event a client's handleDisconnect raises
HostEventId == -1

PlayerLeftEvent(id, flag) == [type |-> "player-left", id |-> id, isHost |-> flag]

\* Game.returnToMenu at peer p: the match ends, network.disconnect()
\* destroys the peer, which closes its connections; the other end of each
\* gets a 'close' event.  raised is the event the network manager raised
\* towards the game during the call (NoMsg: none).
leaveMatch(p, raised) ==
    /\ state[p] = "PLAYING"
    /\ state' = [state EXCEPT ![p] = "MENU"]
    /\ matchWon' = [matchWon EXCEPT ![p] = FALSE]
    /\ connections' = [connections EXCEPT ![p] = {}]
    /\ connected' = [connected EXCEPT ![p] = FALSE]
    /\ closing' = closing \cup {<<q, p>> : q \in {r \in connections[p] : p \in connections[r]}}
    /\ players' = [players EXCEPT ![p] = {}]
    /\ myPlayerIds' = [myPlayerIds EXCEPT ![p] = {}]
    /\ step' = Step("returnToMenu", p, NoPeer, raised, "")
    /\ promise' = [promise EXCEPT ![p] = "none"]
    /\ UNCHANGED <<kinVars, netKind, chan, spawnVars, playerVars, playerScores, puVars, astVars,
                   weapons, sent, tickError, ticks>>

\* Game.returnToMenu where the closing peer's own connections dispatch no
\* 'close' event
ReturnToMenu(p) ==
    /\ p \in Peers
    /\ leaveMatch(p, NoMsg)

\* GameNetworkFacade.handlePlayerLeft: if (data.isHost)
ignoresHostFlag(data) == FALSE

hostLeft(data) == data.isHost

\* conn.on('close') + PeerNetworkManager.handleDisconnect(from) at peer p +
\* GameNetworkFacade.handlePlayerLeft + Game.returnToMenu.  The host looks
\* the player of the closed connection up; a client raises the player-left
\* event with the host flag.
ConnClose(p, from) ==
    /\ <<p, from>> \in closing
    /\ LET left == connections[p] \ {from}
           id == AssignedId[from]
           found == isHost(p) /\ connected[p] /\ id \in players[p]
           data == IF isHost(p) THEN PlayerLeftEvent(id, FALSE)
                   ELSE PlayerLeftEvent(HostEventId, TRUE)
           raised == ~isHost(p) \/ found
           toMenu == raised /\ hostLeft(data)
           removed == raised /\ ~hostLeft(data)
           gone == {q \in left : p \in connections[q]}
       IN /\ state' = IF toMenu THEN [state EXCEPT ![p] = "MENU"] ELSE state
          /\ matchWon' = IF toMenu THEN [matchWon EXCEPT ![p] = FALSE] ELSE matchWon
          /\ connections' = [connections EXCEPT ![p] = IF toMenu THEN {} ELSE left]
          /\ connected' = IF toMenu THEN [connected EXCEPT ![p] = FALSE] ELSE connected
          /\ promise' = IF toMenu
                         THEN [promise EXCEPT ![p] = IF @ = "pending" THEN "abandoned" ELSE "none"]
                         ELSE promise
          /\ closing' = (closing \ {<<p, from>>})
                           \cup (IF toMenu THEN {<<q, p>> : q \in gone} ELSE {})
          /\ players' = IF toMenu THEN [players EXCEPT ![p] = {}]
                        ELSE IF removed THEN [players EXCEPT ![p] = @ \ {data.id}]
                        ELSE players
          /\ myPlayerIds' = IF toMenu THEN [myPlayerIds EXCEPT ![p] = {}]
                            ELSE IF removed THEN [myPlayerIds EXCEPT ![p] = @ \ {data.id}]
                            ELSE myPlayerIds
          /\ chan' = IF found
                     THEN [e \in Links |->
                              IF e[1] = p /\ e[2] \in left
                              THEN Append(chan[e], [type |-> "player-left", id |-> id])
                              ELSE chan[e]]
                     ELSE chan
          /\ step' = Step("close", p, from, IF raised THEN data ELSE NoMsg,
                          IF toMenu THEN "menu" ELSE IF removed THEN "removed" ELSE "")
    /\ UNCHANGED <<kinVars, netKind, spawnVars, playerVars, playerScores, puVars, astVars, weapons,
                   sent, tickError, ticks>>

\* an online match with traffic, which the host leaves
NextHostLeave ==
    \/ ReturnToMenu(Host)
    \/ \E p \in Peers, from \in Peers : ConnClose(p, from)
    \/ \E p \in Peers : SendPlayerUpdate(p)
    \/ \E p \in Peers, from \in Peers : RecvPlayerUpdate(p, from)

\* the event loop of a client dispatches the 'close' event of its
\* connection to the host once the event is pending
SpecHostLeave ==
    /\ InitOnline
    /\ [][NextHostLeave]_vars
    /\ \A c \in Clients : WF_vars(ConnClose(c, Host))

\* C3: in a session of the host and two clients, once the host's
\* connection is torn down, every client that is still in the match gets
\* to the step in which its close handler raises the player-left event
\* with the host flag and the client is back in the menu.
C3_HostLossReturnsClientsToMenu ==
    \A c \in Clients :
        (~connected[Host] /\ state[c] = "PLAYING")
            ~> ( /\ step.op = "close" /\ step.peer = c
                 /\ step.msg = PlayerLeftEvent(HostEventId, TRUE)
                 /\ state[c] = "MENU" /\ ~connected[c] )

\* the host has left, one client is back in the menu through the
\* player-left event, the other one is still playing
C3_Witness ==
    /\ ~connected[Host]
    /\ step.op = "close" /\ step.peer \in Clients /\ step.out = "menu"
    /\ state[step.peer] = "MENU"
    /\ \E c \in Clients : state[c] = "PLAYING"

(***************************************************************************)
(* Joining a session: Game.startGame (mode 'join'),                        *)
(* PeerNetworkManager.connect, handleIncomingConnection and the cases      *)
(* join-request, join-accepted, game-state, player-joined of handleMessage *)
(***************************************************************************)
\* the 'open' event of a DataConnection, queued like the data that follows it
OpenEvent == [type |-> "open"]
JoinRequestMsg == [type |-> "join-request"]
JoinAcceptedMsg(id) == [type |-> "join-accepted", playerId |-> id]
GameStateMsg(ids, pus, ast) ==
    [type |-> "game-state", players |-> ids, powerUps |-> pus, asteroid |-> ast]
PlayerJoinedMsg(id) == [type |-> "player-joined", id |-> id]

\* Array.from(this.activePowerUps.values()): insertion order, which is the
\* order of the ids
RECURSIVE SortById(_)
SortById(S) ==
    IF S = {} THEN << >>
    ELSE LET m == CHOOSE x \in S : \A y \in S : x.id <= y.id
         IN << m >> \o SortById(S \ {m})

\* new RemotePlayer(id, ...) added to the PlayerManager of a peer: the
\* fields of player i in the per-player map f of that peer
FreshPlayers(f, ids, v) == [i \in PlayerIds |-> IF i \in ids THEN v ELSE f[i]]

\* Game.startGame in mode 'join' up to peer.connect(battleCode): the
\* network manager is created, the callbacks are registered and the data
\* connection is being negotiated; its 'open' event will fire at both ends
Connect(c) ==
    /\ c \in Clients
    /\ netKind = "Peer"
    /\ state[c] = "MENU"
    /\ promise[c] \in {"none", "abandoned"}
    /\ connected[Host]
    /\ promise' = [promise EXCEPT ![c] = "pending"]
    /\ chan' = [chan EXCEPT ![<<Host, c>>] = Append(@, OpenEvent),
                            ![<<c, Host>>] = Append(@, OpenEvent)]
    /\ step' = Step("connect", c, NoPeer, NoMsg, "pending")
    /\ UNCHANGED <<kinVars, netKind, connections, connected, closing, spawnVars, sessVars,
                   rosterVars, playerVars, playerScores, puVars, astVars, weapons, sent,
                   tickError, ticks>>

\* connect() rejects before a connection is negotiated: no battle code
\* (reject in peer.on('open')), or the battle code is not registered
\* (peer.on('error')).  startGame catches, alerts and returns.
ConnectRejected(c) ==
    /\ c \in Clients
    /\ netKind = "Peer"
    /\ state[c] = "MENU"
    /\ promise[c] \in {"none", "abandoned"}
    /\ promise' = [promise EXCEPT ![c] = "rejected"]
    /\ step' = Step("connect", c, NoPeer, NoMsg, "rejected")
    /\ UNCHANGED <<kinVars, netKind, connections, connected, closing, chan, spawnVars, sessVars,
                   rosterVars, playerVars, playerScores, puVars, astVars, weapons, sent,
                   tickError, ticks>>

\* conn.on('error') / peer.on('error') while the promise is pending:
\* reject(err); startGame catches, alerts and returns.  The handlers of
\* the connection stay registered and nothing is closed.
ConnError(c) ==
    /\ c \in Clients
    /\ promise[c] = "pending"
    /\ promise' = [promise EXCEPT ![c] = "rejected"]
    /\ step' = Step("error", c, NoPeer, NoMsg, "rejected")
    /\ UNCHANGED <<kinVars, netKind, connections, connected, closing, chan, spawnVars, sessVars,
                   rosterVars, playerVars, playerScores, puVars, astVars, weapons, sent,
                   tickError, ticks>>

PendingOpen(p, from) ==
    chan[<<from, p>>] # << >> /\ Head(chan[<<from, p>>]) = OpenEvent

\* conn.on('open') of the client: store the connection, send join-request
OpenAtClient(c) ==
    /\ c \in Clients
    /\ PendingOpen(c, Host)
    /\ connections' = [connections EXCEPT ![c] = @ \cup {Host}]
    /\ chan' = [chan EXCEPT ![<<Host, c>>] = Tail(@),
                            ![<<c, Host>>] = Append(@, JoinRequestMsg)]
    /\ step' = Step("open", c, Host, OpenEvent, "")
    /\ UNCHANGED <<kinVars, netKind, connected, closing, promise, spawnVars, sessVars, rosterVars,
                   playerVars, playerScores, puVars, astVars, weapons, sent, tickError,
                   ticks>>

\* handleIncomingConnection, conn.on('open') of the host
OpenAtHost(c) ==
    /\ c \in Clients
    /\ PendingOpen(Host, c)
    /\ connections' = [connections EXCEPT ![Host] = @ \cup {c}]
    /\ chan' = Consume(chan, Host, c)
    /\ step' = Step("open", Host, c, OpenEvent, "")
    /\ UNCHANGED <<kinVars, netKind, connected, closing, promise, spawnVars, sessVars, rosterVars,
                   playerVars, playerScores, puVars, astVars, weapons, sent, tickError,
                   ticks>>

\* a handlePlayerJoined that creates no proxy
noProxies(p, ids) == {}

\* GameNetworkFacade.handlePlayerJoined at peer p for the ids: a proxy is
\* created for every id that is not a local player
joinedProxies(p, ids) == ids \ myPlayerIds[p]

\* case 'join-request' at the host + GameNetworkFacade.handlePlayerJoined
RecvJoinRequest(p, from) ==
    /\ Incoming(p, from, "join-request")
    /\ isHost(p)
    /\ LET id == AssignedId[from]
           gs == GameStateMsg(players[p] \cup {id}, SortById(activePowerUps),
                              IF activeAsteroid THEN nextAsteroidId - 1 ELSE NoAsteroidId)
           ch1 == [Consume(chan, p, from) EXCEPT
                      ![<<p, from>>] = @ \o << JoinAcceptedMsg(id), gs >>]
           new == joinedProxies(p, {id})
       IN /\ chan' = broadcast(ch1, p, PlayerJoinedMsg(id), NoPeer)
          /\ players' = [players EXCEPT ![p] = @ \cup new]
          /\ alive' = [alive EXCEPT ![p] = FreshPlayers(@, new, TRUE)]
          /\ shields' = [shields EXCEPT ![p] = FreshPlayers(@, new, 0)]
          /\ invulnerable' = [invulnerable EXCEPT ![p] = FreshPlayers(@, new, FALSE)]
          /\ reversed' = [reversed EXCEPT ![p] = FreshPlayers(@, new, FALSE)]
          /\ step' = Step("join-request", p, from, JoinRequestMsg, "")
    /\ UNCHANGED <<kinVars, connVars, spawnVars, sessVars, myPlayerIds, ammo, respawnTimers,
                   playerScores, puVars, astVars, weapons, sent, tickError, ticks>>

\* case 'join-accepted' at the client and the rest of the 'data' handler of
\* connect: myPlayerId and connected are set and the promise is resolved.
\* If the promise is still pending, Game.startGame goes on: the local
\* player is created, scores and game objects are cleared, state = PLAYING.
RecvJoinAccepted(p, from) ==
    /\ Incoming(p, from, "join-accepted")
    /\ LET data == Head(chan[<<from, p>>])
           first == ~connected[p]
           starts == first /\ promise[p] = "pending"
           me == {data.playerId}
       IN /\ connected' = [connected EXCEPT ![p] = TRUE]
          /\ promise' = IF starts THEN [promise EXCEPT ![p] = "resolved"] ELSE promise
          /\ state' = IF starts THEN [state EXCEPT ![p] = "PLAYING"] ELSE state
          /\ matchWon' = IF starts THEN [matchWon EXCEPT ![p] = FALSE] ELSE matchWon
          /\ players' = IF starts THEN [players EXCEPT ![p] = me] ELSE players
          /\ myPlayerIds' = IF starts THEN [myPlayerIds EXCEPT ![p] = me] ELSE myPlayerIds
          /\ alive' = IF starts THEN [alive EXCEPT ![p] = FreshPlayers(@, me, TRUE)] ELSE alive
          /\ shields' = IF starts THEN [shields EXCEPT ![p] = FreshPlayers(@, me, 0)]
                        ELSE shields
          /\ invulnerable' = IF starts
                             THEN [invulnerable EXCEPT ![p] = FreshPlayers(@, me, FALSE)]
                             ELSE invulnerable
          /\ playerScores' = IF starts
                             THEN [playerScores EXCEPT ![p] = [i \in PlayerIds |-> 0]]
                             ELSE playerScores
          /\ powerUps' = IF starts THEN [powerUps EXCEPT ![p] = << >>] ELSE powerUps
          /\ asteroid' = IF starts THEN [asteroid EXCEPT ![p] = NoAsteroid] ELSE asteroid
          /\ shrapnel' = IF starts THEN [shrapnel EXCEPT ![p] = NoShrapnel] ELSE shrapnel
          /\ weapons' = IF starts THEN [weapons EXCEPT ![p] = {}] ELSE weapons
          /\ step' = Step("join-accepted", p, from, data,
                          IF starts THEN "started" ELSE "")
    /\ chan' = Consume(chan, p, from)
    /\ UNCHANGED <<kinVars, netKind, connections, closing, spawnVars, ammo, reversed,
                   respawnTimers, applied, sent, tickError, ticks>>

\* case 'game-state' at the client: a proxy for every listed player but
\* its own, the power-ups and the asteroid of the host
RecvGameState(p, from) ==
    /\ Incoming(p, from, "game-state")
    /\ LET data == Head(chan[<<from, p>>])
           new == joinedProxies(p, data.players \ (IF connected[p] THEN {myPlayerId(p)} ELSE {}))
       IN /\ players' = [players EXCEPT ![p] = @ \cup new]
          /\ alive' = [alive EXCEPT ![p] = FreshPlayers(@, new, TRUE)]
          /\ shields' = [shields EXCEPT ![p] = FreshPlayers(@, new, 0)]
          /\ invulnerable' = [invulnerable EXCEPT ![p] = FreshPlayers(@, new, FALSE)]
          /\ reversed' = [reversed EXCEPT ![p] = FreshPlayers(@, new, FALSE)]
          /\ powerUps' = [powerUps EXCEPT ![p] = @ \o data.powerUps]
          /\ asteroid' = IF data.asteroid # NoAsteroidId
                         THEN [asteroid EXCEPT ![p] = NewAsteroid(data.asteroid)]
                         ELSE asteroid
          /\ step' = Step("game-state", p, from, data, "")
    /\ chan' = Consume(chan, p, from)
    /\ UNCHANGED <<kinVars, connVars, spawnVars, sessVars, myPlayerIds, ammo, respawnTimers,
                   playerScores, applied, shrapnel, weapons, sent, tickError, ticks>>

\* case 'player-joined' + GameNetworkFacade.handlePlayerJoined
RecvPlayerJoined(p, from) ==
    /\ Incoming(p, from, "player-joined")
    /\ LET data == Head(chan[<<from, p>>])
           new == joinedProxies(p, {data.id})
       IN /\ players' = [players EXCEPT ![p] = @ \cup new]
          /\ alive' = [alive EXCEPT ![p] = FreshPlayers(@, new, TRUE)]
          /\ shields' = [shields EXCEPT ![p] = FreshPlayers(@, new, 0)]
          /\ invulnerable' = [invulnerable EXCEPT ![p] = FreshPlayers(@, new, FALSE)]
          /\ reversed' = [reversed EXCEPT ![p] = FreshPlayers(@, new, FALSE)]
          /\ step' = Step("player-joined", p, from, data, "")
    /\ chan' = Consume(chan, p, from)
    /\ UNCHANGED <<kinVars, connVars, spawnVars, sessVars, myPlayerIds, ammo, respawnTimers,
                   playerScores, puVars, astVars, weapons, sent, tickError, ticks>>

(***************************************************************************)
(* A running session of the host and one client, which a second client     *)
(* joins while the spawners run                                            *)
(***************************************************************************)
NextJoin ==
    \/ \E p \in Peers, puTimer \in BOOLEAN, astTimer \in BOOLEAN, t \in PowerUpTypes :
          networkUpdate(p, puTimer, astTimer, t)
    \/ \E c \in Clients : Connect(c)
    \/ \E c \in Clients : OpenAtClient(c)
    \/ \E c \in Clients : OpenAtHost(c)
    \/ \E p \in Peers, from \in Peers : RecvJoinRequest(p, from)
    \/ \E p \in Peers, from \in Peers : RecvJoinAccepted(p, from)
    \/ \E p \in Peers, from \in Peers : RecvGameState(p, from)
    \/ \E p \in Peers, from \in Peers : RecvPlayerJoined(p, from)
    \/ \E p \in Peers, from \in Peers : RecvPowerUpSpawned(p, from)
    \/ \E p \in Peers, from \in Peers : RecvAsteroidSpawned(p, from)

SpecJoin == InitDuel /\ [][NextJoin]_vars

\* everything a handler can change, the record of the last step excepted
gameVars ==
    <<netKind, connections, connected, closing, promise, chan, activePowerUps, nextId,
      activeAsteroid, nextAsteroidId, state, matchWon, players, myPlayerIds, alive,
      shields, ammo, reversed, invulnerable, respawnTimers, playerScores, powerUps,
      applied, asteroid, shrapnel, weapons, sent, tickError, ticks, remote, timed,
      position, homing, winner>>

SpawnTypes == {"powerup-spawned", "asteroid-spawned"}

\* the ids of the power-ups in a peer's list
HeldIds(list) == {list[i].id : i \in 1 .. Len(list)}

\* C11: in online mode, network.update of a client changes nothing and
\* sends nothing; no client ever has a spawn message on a channel of its
\* own; the spawners only advance in steps of the host; and a power-up or
\* an asteroid only appears at a client when the client handles a
\* powerup-spawned, asteroid-spawned or game-state message from the host
\* that carries an id the host's spawner has issued.
C11_ClientsNeverSpawn ==
    [][isOnlineMode =>
        /\ (<<nextId, nextAsteroidId>>' # <<nextId, nextAsteroidId>>) => step'.peer = Host
        /\ \A c \in Clients :
            /\ (step'.op = "update" /\ step'.peer = c) => UNCHANGED gameVars
            /\ \A q \in Peers : \A k \in 1 .. Len(chan'[<<c, q>>]) :
                  chan'[<<c, q>>][k].type \notin SpawnTypes
            /\ (HeldIds(powerUps'[c]) \ HeldIds(powerUps[c]) # {}) =>
                  /\ step'.peer = c /\ step'.from = Host
                  /\ step'.op \in {"powerup-spawned", "game-state"}
                  /\ \A i \in HeldIds(powerUps'[c]) : i < nextId
            /\ (asteroid'[c].present /\ asteroid'[c].id # asteroid[c].id) =>
                  /\ step'.peer = c /\ step'.from = Host
                  /\ step'.op \in {"asteroid-spawned", "game-state"}
                  /\ asteroid'[c].id < nextAsteroidId]_vars

\* a client that holds a power-up and an asteroid announced by the host has
\* just run network.update
C11_Witness ==
    /\ step.op = "update" /\ step.peer \in Clients
    /\ powerUps[step.peer] # << >>
    /\ asteroid[step.peer].present
    /\ nextId > 0 /\ nextAsteroidId > 0

(***************************************************************************)
(* The asteroid over a session that a second client joins: spawn, damage,  *)
(* destruction and the game-state snapshot                                 *)
(***************************************************************************)
\* A match of the host and one client in progress: bullets have brought
\* the asteroid down to one health point, player 2 has a bullet and a bomb
\* in the air.
InitAsteroidDuel ==
    InitWith([Fresh("Peer", Duel, OnePlayerEach) EXCEPT
                 !.ast = TRUE,
                 !.astHealth = 1,
                 !.weapons = {<<2, "bullets">>, <<2, "bomb">>}])

NextAsteroidJoin ==
    \/ \E p \in Peers : CheckAll(p, WeaponKinds)
    \/ \E p \in Peers, o \in PlayerIds, astIn \in BOOLEAN : BombExplosion(p, o, {}, astIn)
    \/ \E p \in Peers : UpdateAsteroid(p)
    \/ SpawnAsteroid
    \/ \E p \in Peers, from \in Peers : RecvAsteroidSpawned(p, from)
    \/ \E p \in Peers, from \in Peers : RecvAsteroidDamaged(p, from)
    \/ \E p \in Peers, from \in Peers : RecvAsteroidDestroyed(p, from)
    \/ \E c \in Clients : Connect(c)
    \/ \E c \in Clients : OpenAtClient(c)
    \/ \E c \in Clients : OpenAtHost(c)
    \/ \E p \in Peers, from \in Peers : RecvJoinRequest(p, from)
    \/ \E p \in Peers, from \in Peers : RecvJoinAccepted(p, from)
    \/ \E p \in Peers, from \in Peers : RecvGameState(p, from)
    \/ \E p \in Peers, from \in Peers : RecvPlayerJoined(p, from)

SpecAsteroidJoin == InitAsteroidDuel /\ [][NextAsteroidJoin]_vars

\* EntityManager.asteroid is one slot: the asteroid entities of a peer
AsteroidEntities(p) == IF asteroid[p].present THEN {asteroid[p].id} ELSE {}

\* C12: every peer holds at most one asteroid entity; the spawner only
\* issues an asteroid while the authority has no active one; and an
\* asteroid with a new id never takes the place of a living asteroid on
\* any peer, so that no two asteroids are ever alive on a peer's map.
C12_AtMostOneAsteroid ==
    [][ /\ \A p \in Peers : Cardinality(AsteroidEntities(p)) <= 1
        /\ nextAsteroidId' # nextAsteroidId => (~activeAsteroid /\ activeAsteroid')
        /\ \A p \in Peers :
              (asteroid'[p].present /\ asteroid'[p].id # asteroid[p].id) =>
                  ~(asteroid[p].present /\ asteroid[p].alive) ]_vars

\* the first asteroid was destroyed, the second one is on the map of the
\* host and of the client that joined during the match
C12_Witness ==
    /\ state["p3"] = "PLAYING"
    /\ asteroid["p3"].present /\ asteroid["p3"].alive /\ asteroid["p3"].id = 1
    /\ asteroid[Host].present /\ asteroid[Host].alive /\ asteroid[Host].id = 1
    /\ activeAsteroid

(***************************************************************************)
(* The power-up cap over a session that a second client joins              *)
(***************************************************************************)
\* The host plays alone in its session and the map is full: maxOnMap
\* power-ups have been spawned, none has been collected.
InitCap ==
    InitWith([Fresh("Peer", {Host}, OnePlayerEach) EXCEPT
                 !.pus = [i \in 1 .. maxOnMap |-> [id |-> i - 1, type |-> "SHIELD"]]])

NextCap ==
    \/ networkUpdateWithin(Host, TRUE, FALSE, "SHIELD", MaxSpawned)
    \/ \E p \in Peers, from \in Peers : RecvPowerUpSpawned(p, from)
    \/ \E p \in Peers, id \in PowerUpIds, i \in PlayerIds : updatePowerUps(p, {<<id, i>>})
    \/ \E p \in Peers, from \in Peers : RecvPowerUpPickup(p, from)
    \/ \E p \in Peers, from \in Peers : RecvPowerUpCollected(p, from)
    \/ Connect("p2")
    \/ \E c \in Clients : OpenAtClient(c)
    \/ \E c \in Clients : OpenAtHost(c)
    \/ \E p \in Peers, from \in Peers : RecvJoinRequest(p, from)
    \/ \E p \in Peers, from \in Peers : RecvJoinAccepted(p, from)
    \/ \E p \in Peers, from \in Peers : RecvGameState(p, from)

SpecCap == InitCap /\ [][NextCap]_vars

\* C13: the authority's active set never holds more than maxOnMap
\* power-ups, and neither does the power-up list of any peer.
C13_PowerUpsWithinCap ==
    /\ Cardinality(activePowerUps) <= maxOnMap
    /\ \A p \in Peers : Len(powerUps[p]) <= maxOnMap

\* the cap is reached again after collected power-ups made room for new
\* ones, and the client that joined during the match holds a full map
C13_Witness ==
    /\ nextId > maxOnMap
    /\ Cardinality(activePowerUps) = maxOnMap
    /\ state["p2"] = "PLAYING"
    /\ Len(powerUps["p2"]) = maxOnMap
    /\ Len(powerUps[Host]) = maxOnMap

(***************************************************************************)
(* A match near its end: hits, deaths, respawns and the win                *)
(***************************************************************************)
\* Player.update of local player v in a tick in which invulnerableTime
\* passes GAME_SETTINGS.invulnerabilityDuration
PlayerUpdate(p, v) ==
    /\ state[p] = "PLAYING"
    /\ v \in myPlayerIds[p]
    /\ alive[p][v]
    /\ invulnerable[p][v]
    /\ invulnerable' = [invulnerable EXCEPT ![p][v] = FALSE]
    /\ step' = Step("playerUpdate", p, NoPeer, NoMsg, "")
    /\ UNCHANGED <<kinVars, connVars, spawnVars, sessVars, rosterVars, alive, shields, ammo, reversed,
                   respawnTimers, playerScores, puVars, astVars, weapons, sent, chan,
                   tickError, ticks>>

\* A match in progress in which player 1 is one kill short of winScore on
\* every peer, player 2 carries a shield, and players 1 and 3 have
\* bullets in the air.
InitMatch ==
    InitWith([Fresh("Peer", Peers, OnePlayerEach) EXCEPT
                 !.scores = [i \in PlayerIds |-> IF i = 1 THEN winScore - 1 ELSE 0],
                 !.shields = [i \in PlayerIds |-> IF i = 2 THEN 1 ELSE 0],
                 !.weapons = {<<1, "bullets">>, <<3, "bullets">>}])

NextMatch ==
    \/ \E p \in Peers : CheckAll(p, {"weapon-player"})
    \/ \E p \in Peers, v \in PlayerIds : Respawn(p, v)
    \/ \E p \in Peers, v \in PlayerIds : PlayerUpdate(p, v)
    \/ BroadcastDeath("p3", myPlayerId("p3"), 1)
    \/ \E p \in Peers, from \in Peers : RecvPlayerDied(p, from)

SpecMatch == InitMatch /\ [][NextMatch]_vars

\* C14: on no peer does the score of a player decrease while the match
\* runs.
C14_ScoresNeverDecrease ==
    [][\A p \in Peers : \A i \in PlayerIds :
          playerScores'[p][i] >= playerScores[p][i]]_vars

\* a tick in which a local player died has taken the score of player 1 on
\* that peer past its initial value, and a player-died message has done
\* the same on another peer
C14_Witness ==
    /\ IsCombatTick(step)
    /\ step.msg.died # {}
    /\ playerScores[step.peer][1] >= winScore
    /\ \E q \in Peers \ {step.peer} : playerScores[q][1] >= winScore

(***************************************************************************)
(* Shield layers: pickups, hits and the copies the proxies keep            *)
(***************************************************************************)
\* A match of the host and one client in progress: player 1 carries
\* maxStacks shields, two SHIELD power-ups are on the map, and both players
\* have projectiles in the air.
InitShields ==
    InitWith([Fresh("Peer", Duel, OnePlayerEach) EXCEPT
                 !.shields = [i \in PlayerIds |-> IF i = 1 THEN maxStacks ELSE 0],
                 !.pus = << [id |-> 0, type |-> "SHIELD"], [id |-> 1, type |-> "SHIELD"] >>,
                 !.weapons = {<<1, "bullets">>, <<2, "laser">>}])

NextShields ==
    \/ \E p \in Peers : UpdatePowerUps(p)
    \/ \E p \in Peers, from \in Peers : RecvPowerUpPickup(p, from)
    \/ \E p \in Peers, from \in Peers : RecvPowerUpCollected(p, from)
    \/ \E p \in Peers : SendPlayerUpdate(p)
    \/ \E p \in Peers, from \in Peers : RecvPlayerUpdate(p, from)
    \/ \E p \in Peers : CheckAll(p, {"weapon-player"})

SpecShields == InitShields /\ [][NextShields]_vars

\* C15: on every peer, every player, local or proxy, has between 0 and
\* maxStacks shields.
C15_ShieldsInRange ==
    \A p \in Peers : \A i \in PlayerIds :
        shields[p][i] >= 0 /\ shields[p][i] <= maxStacks

\* the client has applied to its proxy of player 1 a SHIELD that player 1
\* collected with maxStacks shields already on
C15_Witness ==
    /\ step.op = "powerup-collected"
    /\ step.peer = "p2"
    /\ step.msg.playerId = 1
    /\ step.msg.powerupType = "SHIELD"
    /\ applied[Host][<<step.msg.id, 1>>] > 0
    /\ shields["p2"][1] = maxStacks
    /\ shields[Host][1] = maxStacks

\* C16: on every peer, a score at or above winScore means the match is
\* marked won; a match marked won stays so; and while it is marked won no
\* dead local player comes back to life, whether or not its respawn timer
\* was pending when the match was won.
C16_NoRespawnAfterWin ==
    [][\A p \in Peers :
          /\ (\E i \in PlayerIds : playerScores'[p][i] >= winScore) => matchWon'[p]
          /\ matchWon[p] =>
                /\ matchWon'[p]
                /\ \A i \in myPlayerIds[p] : ~alive[p][i] => ~alive'[p][i]]_vars

\* a respawn timer set before the win has fired after it, and the player
\* is still dead
C16_Witness ==
    /\ step.op = "respawn"
    /\ matchWon[step.peer]
    /\ playerScores[step.peer][1] >= winScore
    /\ ~alive[step.peer][myPlayerId(step.peer)]
    /\ respawnTimers[step.peer] = {}

(***************************************************************************)
(* Several projectiles on one player in one tick                           *)
(***************************************************************************)
\* A match in progress in which players 1 and 3 have bullets in the air
\* and nobody carries a shield.
InitOverlap ==
    InitWith([Fresh("Peer", Peers, OnePlayerEach) EXCEPT
                 !.weapons = {<<1, "bullets">>, <<3, "bullets">>}])

NextOverlap ==
    \/ \E p \in Peers : CheckAll(p, {"weapon-player"})
    \/ \E p \in Peers, v \in PlayerIds : Respawn(p, v)
    \/ \E p \in Peers, v \in PlayerIds : PlayerUpdate(p, v)

SpecOverlap == InitOverlap /\ [][NextOverlap]_vars

\* the players whose score a step changes at peer p
Credited(p) == {i \in PlayerIds : playerScores'[p][i] # playerScores[p][i]}

\* C17: a collision tick of a peer resolves no hit against a local player
\* that is dead or invulnerable: such a player keeps its shields, is not
\* recorded as dying and changes no score; and a player that dies in the
\* tick dies once, crediting at most one attacker, however many
\* projectiles overlap it.
C17_NoHitOnDeadOrInvulnerable ==
    [][\A p \in Peers :
          (IsCombatTick(step') /\ step'.peer = p) =>
              \A v \in myPlayerIds[p] :
                  /\ (~alive[p][v] \/ invulnerable[p][v]) =>
                        /\ shields'[p][v] = shields[p][v]
                        /\ \A d \in step'.msg.died : d[1] # v
                        /\ Credited(p) = {}
                  /\ Cardinality({d \in step'.msg.died : d[1] = v}) <= 1
                  /\ Cardinality(Credited(p)) <= 1]_vars

(***************************************************************************)
(* Respawn and the invulnerability window                                  *)
(***************************************************************************)
\* setTimeout callbacks run, and Game.gameLoop requests the next frame
\* before it calls update, so Player.update keeps running for a living
\* local player while the game is in PLAYING.
SpecMatchFair ==
    /\ SpecMatch
    /\ \A p \in Peers :
          WF_vars(Respawn(p, myPlayerId(p))) /\ WF_vars(PlayerUpdate(p, myPlayerId(p)))

DeadInMatch(p, v) ==
    state[p] = "PLAYING" /\ ~matchWon[p] /\ v \in myPlayerIds[p] /\ ~alive[p][v]

\* C18: while the match is played and not won, a dead local player is
\* eventually alive and invulnerable again (unless the match is won or left
\* first); the respawn keeps the roster, i.e. it revives the same player
\* entity; and an invulnerable living local player eventually loses its
\* invulnerability.
C18_RespawnThenVulnerable ==
    /\ \A p \in Peers :
          DeadInMatch(p, myPlayerId(p)) ~>
              \/ alive[p][myPlayerId(p)] /\ invulnerable[p][myPlayerId(p)]
              \/ matchWon[p]
              \/ state[p] # "PLAYING"
    /\ \A p \in Peers :
          (/\ state[p] = "PLAYING" /\ myPlayerId(p) \in myPlayerIds[p]
           /\ alive[p][myPlayerId(p)] /\ invulnerable[p][myPlayerId(p)])
              ~> (~invulnerable[p][myPlayerId(p)] \/ state[p] # "PLAYING")
    /\ [][step'.op = "respawn" =>
             /\ players' = players /\ myPlayerIds' = myPlayerIds
             /\ \A v \in PlayerIds :
                   (~alive[step'.peer][v] /\ alive'[step'.peer][v]) =>
                       /\ v \in myPlayerIds[step'.peer]
                       /\ invulnerable'[step'.peer][v]]_vars

\* a local player that died in a tick has been respawned and its
\* invulnerability window has run out
C18_Witness ==
    /\ step.op = "playerUpdate"
    /\ ticks > 0
    /\ ~matchWon[step.peer]
    /\ alive[step.peer][myPlayerId(step.peer)]
    /\ ~invulnerable[step.peer][myPlayerId(step.peer)]
    /\ respawnTimers[step.peer] = {}

(***************************************************************************)
(* A client leaves the session                                             *)
(***************************************************************************)
\* PeerNetworkManager.handleMessage on a 'player-left' message: the switch
\* has no case for this type, so the message is logged and dropped; the
\* player-left callback of the game is raised by handleDisconnect only.
RecvPlayerLeft(p, from) ==
    /\ Incoming(p, from, "player-left")
    /\ chan' = Consume(chan, p, from)
    /\ step' = Step("player-left", p, from, Head(chan[<<from, p>>]), "dropped")
    /\ UNCHANGED <<kinVars, connVars, spawnVars, sessVars, rosterVars, playerVars, playerScores,
                   puVars, astVars, weapons, sent, tickError, ticks>>

\* an online match with traffic, which a client leaves
NextClientLeave ==
    \/ \E c \in Clients : ReturnToMenu(c)
    \/ \E p \in Peers, from \in Peers : ConnClose(p, from)
    \/ \E p \in Peers : SendPlayerUpdate(p)
    \/ \E p \in Peers, from \in Peers : RecvPlayerUpdate(p, from)
    \/ \E p \in Peers, from \in Peers : RecvPlayerLeft(p, from)

SpecClientLeave == InitOnline /\ [][NextClientLeave]_vars

\* C19: when the connection of a client closes, the host drops the
\* connection and the client's player and sends player-left for that id to
\* every remaining peer; a remaining peer that has handled the player-left
\* message no longer holds the player; and the match goes on for them.
C19_ClientLeaveReachesEveryPeer ==
    [][/\ (step'.op = "close" /\ step'.peer = Host /\ step'.out = "removed") =>
            /\ step'.from \notin connections'[Host]
            /\ step'.msg.id \notin players'[Host]
            /\ state'[Host] = "PLAYING"
            /\ \A q \in connections'[Host] :
                  /\ chan'[<<Host, q>>] # << >>
                  /\ chan'[<<Host, q>>][Len(chan'[<<Host, q>>])] =
                        [type |-> "player-left", id |-> step'.msg.id]
       /\ step'.op = "player-left" =>
            /\ step'.msg.id \notin players'[step'.peer]
            /\ state'[step'.peer] = "PLAYING"]_vars

(***************************************************************************)
(* connect() is rejected                                                   *)
(***************************************************************************)
\* a session of the host and one client that the other client tries to
\* join, with and without errors
NextReject ==
    \/ \E c \in Clients : Connect(c)
    \/ \E c \in Clients : ConnectRejected(c)
    \/ \E c \in Clients : ConnError(c)
    \/ \E c \in Clients : OpenAtClient(c)
    \/ \E c \in Clients : OpenAtHost(c)
    \/ \E p \in Peers, from \in Peers : RecvJoinRequest(p, from)
    \/ \E p \in Peers, from \in Peers : RecvJoinAccepted(p, from)
    \/ \E p \in Peers, from \in Peers : RecvGameState(p, from)
    \/ \E p \in Peers, from \in Peers : RecvPlayerJoined(p, from)
    \/ \E p \in Peers : SendPlayerUpdate(p)
    \/ \E p \in Peers, from \in Peers : RecvPlayerUpdate(p, from)

SpecReject == InitDuel /\ [][NextReject]_vars

\* C20: a peer whose connect() was rejected is in the pre-match state: it
\* is not connected and has no player id (connected and myPlayerId are set
\* together), holds no connection, has no local player, and its game is in
\* the menu.
C20_RejectedLeavesNoSession ==
    \A c \in Clients :
        promise[c] = "rejected" =>
            /\ ~connected[c]
            /\ connections[c] = {}
            /\ myPlayerIds[c] = {}
            /\ state[c] = "MENU"

(***************************************************************************)
(* Messages that arrive too late or name nobody                            *)
(***************************************************************************)
\* A match of the host and one client in progress: one power-up is on the
\* map, bullets have brought the asteroid down to one health point, and
\* the host has bullets in the air.
InitStale ==
    InitWith([Fresh("Peer", Duel, OnePlayerEach) EXCEPT
                 !.pus = << [id |-> 0, type |-> "SHIELD"] >>,
                 !.ast = TRUE,
                 !.astHealth = 1,
                 !.weapons = {<<1, "bullets">>}])

\* the player id no peer of the session holds
UnknownId == CHOOSE i \in PlayerIds : \A q \in Duel : i \notin OnePlayerEach[q]

NextStale ==
    \/ \E p \in Peers : CheckAll(p, WeaponKinds)
    \/ \E p \in Peers : UpdateAsteroid(p)
    \/ \E p \in Peers, from \in Peers : RecvAsteroidDamaged(p, from)
    \/ \E p \in Peers, from \in Peers : RecvAsteroidDestroyed(p, from)
    \/ \E p \in Peers : UpdatePowerUps(p)
    \/ \E p \in Peers, from \in Peers : RecvPowerUpPickup(p, from)
    \/ \E p \in Peers, from \in Peers : RecvPowerUpCollected(p, from)
    \/ \E k \in {NoPlayer, 1} : BroadcastDeath("p2", UnknownId, k)
    \/ \E p \in Peers, from \in Peers : RecvPlayerDied(p, from)

SpecStale == InitStale /\ [][NextStale]_vars

\* everything a handler could change but the channels
entityVars ==
    <<netKind, connections, connected, closing, promise, activePowerUps, nextId,
      activeAsteroid, nextAsteroidId, state, matchWon, players, myPlayerIds, alive,
      shields, ammo, reversed, invulnerable, respawnTimers, playerScores, powerUps,
      applied, asteroid, shrapnel, weapons, sent, tickError, ticks, remote, timed,
      position, homing, winner>>

NoLiveAsteroid(p) == ~(asteroid[p].present /\ asteroid[p].alive)

\* C21: an asteroid-damaged or asteroid-destroyed message handled by a peer
\* that has no live asteroid, a powerup-pickup claim the host handles for a
\* power-up that is not active any more, and a player-died message that
\* names a victim the peer does not know change no entity, no score and no
\* active set, and raise no error; the stale messages send nothing.
C21_StaleMessagesAreNoOps ==
    [][/\ (step'.op \in {"asteroid-damaged", "asteroid-destroyed"}
              /\ NoLiveAsteroid(step'.peer)) =>
            /\ UNCHANGED entityVars
            /\ chan' = Consume(chan, step'.peer, step'.from)
       /\ (step'.op = "powerup-pickup" /\ step'.peer = Host
              /\ ~\E a \in activePowerUps : a.id = step'.msg.powerupId) =>
            /\ UNCHANGED entityVars
            /\ chan' = Consume(chan, step'.peer, step'.from)
       /\ (step'.op = "player-died"
              /\ step'.msg.victimId \notin players[step'.peer]) =>
            UNCHANGED entityVars]_vars

\* the client handles the destroy message for an asteroid that its damage
\* messages had already killed, after host and client collected the same
\* power-up, so that the client's claim was stale
C21_Witness ==
    /\ step.op = "asteroid-destroyed"
    /\ step.peer = "p2"
    /\ asteroid["p2"].present /\ ~asteroid["p2"].alive
    /\ shrapnel["p2"] = NoShrapnel
    /\ applied[Host][<<0, 1>>] > 0
    /\ applied["p2"][<<0, 2>>] > 0
    /\ activePowerUps = {}

(***************************************************************************)
(* disconnect()                                                            *)
(***************************************************************************)
\* this.connections.clear()
keepConnections(S) == S

clearConnections(S) == {}

\* GameNetworkFacade.disconnect -> network.disconnect() of peer p.
\* PeerNetworkManager: peer.destroy() (skipped without a Peer) closes the
\* data connections, whose other ends get a 'close' event; connections and
\* players are cleared, connected = false.  LocalNetworkManager: the
\* connected players and the active sets are cleared, the spawner timers
\* are reset.  The call changes nothing in the game.
Disconnect(p) ==
    /\ netKind = "Local" => p = Host
    /\ connections' = [connections EXCEPT ![p] = clearConnections(@)]
    /\ connected' = [connected EXCEPT ![p] = FALSE]
    /\ closing' = closing \cup {<<q, p>> : q \in {r \in connections[p] : p \in connections[r]}}
    /\ activePowerUps' = IF netKind = "Local" THEN {} ELSE activePowerUps
    /\ activeAsteroid' = IF netKind = "Local" THEN FALSE ELSE activeAsteroid
    /\ step' = Step("disconnect", p, NoPeer, NoMsg,
                    IF step.op = "disconnect" /\ step.peer = p THEN "again" ELSE "first")
    /\ UNCHANGED <<kinVars, netKind, promise, chan, nextId, nextAsteroidId, sessVars, rosterVars,
                   playerVars, playerScores, puVars, astVars, weapons, sent, tickError,
                   ticks>>

\* an online session of the host and one client, or a local match
InitDisconnect == InitDuel \/ InitLocal

NextDisconnect ==
    \/ \E p \in Peers : Disconnect(p)
    \/ \E p \in Peers, from \in Peers : ConnClose(p, from)
    \/ \E p \in Peers : SendPlayerUpdate(p)
    \/ \E p \in Peers, from \in Peers : RecvPlayerUpdate(p, from)
    \/ networkUpdate(Host, TRUE, TRUE, "SHIELD")
    \/ \E p \in Peers, from \in Peers : RecvPowerUpSpawned(p, from)
    \/ \E p \in Peers, from \in Peers : RecvAsteroidSpawned(p, from)

SpecDisconnect == InitDisconnect /\ [][NextDisconnect]_vars

ObjectAsId ==
    CHOOSE i \in 0 .. Cardinality(PlayerIds) + 1 : i \notin PlayerIds \cup {NoPlayer}

\* the value of a parameter the caller did not pass: spreading it adds no
\* weaponType to the message
Undefined == [weaponType |-> "undefined"]

\* PeerNetworkManager.sendWeaponFire(playerId, data):
\* { type: 'weapon-fire', playerId: playerId, ...data }
sendWeaponFire(ch, p, playerId, data) ==
    send(ch, p, WeaponFireMsg(playerId, data.weaponType))

\* GameNetworkFacade.broadcastWeaponFire(playerCtrl, weaponData) for local
\* player id of peer p: this.network.sendWeaponFire(weaponData) binds the
\* weaponData object to the parameter playerId and leaves data undefined
BroadcastWeaponFire(p, id, kind) ==
    /\ state[p] = "PLAYING"
    /\ isOnlineMode
    /\ id \in myPlayerIds[p]
    /\ kind \in WeaponTypes
    /\ sent < MaxSends
    /\ chan' = sendWeaponFire(chan, p, ObjectAsId, Undefined)
    /\ step' = Step("broadcastWeaponFire", p, NoPeer,
                    WeaponFireMsg(ObjectAsId, Undefined.weaponType), kind)
    /\ sent' = sent + 1
    /\ UNCHANGED <<kinVars, connVars, spawnVars, sessVars, rosterVars, playerVars, playerScores,
                   puVars, astVars, weapons, tickError, ticks>>

\* A match of three peers in which player 2 holds a laser and player 3 a bomb
InitFire ==
    InitWith([Fresh("Peer", Peers, OnePlayerEach) EXCEPT
                 !.ammo = [i \in PlayerIds |->
                              IF i = 2 THEN {"LASER"}
                              ELSE IF i = 3 THEN {"BOMB"} ELSE {}]])

NextFire ==
    \/ \E p \in Peers : HandlePlayerFire(p, myPlayerId(p), NoPlayer)
    \/ \E p \in Peers, kind \in WeaponTypes : BroadcastWeaponFire(p, myPlayerId(p), kind)
    \/ \E p \in Peers, from \in Peers : RecvWeaponFire(p, from)

SpecFire == InitFire /\ [][NextFire]_vars

\* the step just taken emitted a weapon-fire message for a weapon fired by
\* a local player of step.peer
EmittedFire(st) ==
    /\ st.op \in {"handlePlayerFire", "broadcastWeaponFire"}
    /\ st.msg.type = "weapon-fire"

\* C23: every weapon-fire message a peer emits, through the weapon manager
\* or through the synchronization facade, names as owner a player id that
\* the sending peer owns locally.
C23_FireNamesLocalOwner ==
    EmittedFire(step) => step.msg.playerId \in myPlayerIds[step.peer]

(***************************************************************************)
(* RemotePlayer: timed flags and interpolation toward the target position  *)
(***************************************************************************)
\* GAME_SETTINGS.powerups.*.duration, in seconds
multiShotDuration == 8
invisibilityDuration == 10
reverseDuration == 10

\* d * smoothing with const smoothing = 0.3
smoothed(d) == (d * 3) \div 10

xWrapThreshold == Px(canvasWidth) \div 2
yWrapThreshold == Px(canvasHeight) \div 2

neverWrapped(d, threshold) == FALSE
\* Math.abs(dx) > xWrapThreshold
isWrapped(d, threshold) == Abs(d) > threshold

\* a proxy that counts every flag down for too long
heldDurations ==
    [invisible |-> invisibilityDuration + reverseDuration,
     multiShot |-> multiShotDuration + reverseDuration,
     reversed |-> reverseDuration + reverseDuration]

\* this.invisibleDuration, multiShotDuration, reversedDuration of RemotePlayer
remoteDurations ==
    [invisible |-> invisibilityDuration, multiShot |-> multiShotDuration,
     reversed |-> reverseDuration]

\* if (this.flag) { this.flagTime += dt; if (this.flagTime > this.flagDuration)
\* { this.flag = false; this.flagTime = 0; } }   -- <<flag, flagTime>>
countDown(on, time, duration, dt) ==
    IF ~on THEN <<on, time>>
    ELSE IF time + dt > duration THEN <<FALSE, 0>>
    ELSE <<TRUE, time + dt>>

\* the timed power-up block shared by Player.update and RemotePlayer.update
updateFlags(f, dur, dt) ==
    LET i == countDown(f.invisible, f.invisibleTime, dur.invisible, dt)
        m == countDown(f.multiShot, f.multiShotTime, dur.multiShot, dt)
        r == countDown(f.reversed, f.reversedTime, dur.reversed, dt)
    IN [invisible |-> i[1], invisibleTime |-> i[2], multiShot |-> m[1],
        multiShotTime |-> m[2], reversed |-> r[1], reversedTime |-> r[2]]

\* RemotePlayer.onNetworkUpdate(data); the angle is not modelled
onNetworkUpdate(r, data) ==
    [r EXCEPT !.targetPos = [x |-> data.x, y |-> data.y],
              !.alive = data.alive,
              !.shields = data.shields,
              !.invulnerable = data.invulnerable]

\* the position part of RemotePlayer.update(dt); the angle is not modelled
interpolate(displayPos, targetPos) ==
    LET dx == targetPos.x - displayPos.x
        dy == targetPos.y - displayPos.y
        isXWrapped == isWrapped(dx, xWrapThreshold)
        isYWrapped == isWrapped(dy, yWrapThreshold)
    IN IF isXWrapped \/ isYWrapped
       THEN [x |-> targetPos.x, y |-> targetPos.y]
       ELSE [x |-> displayPos.x + smoothed(dx), y |-> displayPos.y + smoothed(dy)]

\* RemotePlayer.update(dt)
remoteUpdate(r, dt) ==
    [r EXCEPT !.flags = updateFlags(@, remoteDurations, dt),
              !.displayPos = interpolate(@, r.targetPos)]

\* the peer that holds the RemotePlayer object, and the player it stands for
Holder == "p2"
Stood == myPlayerId(Host)

\* case 'player-update' -> handlePlayerUpdate -> RemotePlayer.onNetworkUpdate
\* with the position carried by the message
OnNetworkUpdate(data) ==
    /\ state[Holder] = "PLAYING"
    /\ sent < MaxSends
    /\ remote' = onNetworkUpdate(remote, data)
    /\ sent' = sent + 1
    /\ step' = Step("onNetworkUpdate", Holder, Host, NoMsg, "")
    /\ UNCHANGED <<timed, position, homing, winner, connVars, chan, spawnVars, sessVars, rosterVars, playerVars,
                   playerScores, puVars, astVars, weapons, tickError, ticks>>

\* one tick of the holder: playerCtrl.update(dt) of the remote player
RemoteUpdate(dt) ==
    /\ state[Holder] = "PLAYING"
    /\ ticks < MaxTicks
    /\ remote' = remoteUpdate(remote, dt)
    /\ ticks' = ticks + 1
    /\ step' = Step("remoteUpdate", Holder, NoPeer,
                    [type |-> "tick", was |-> remote.displayPos], "")
    /\ UNCHANGED <<timed, position, homing, winner, connVars, chan, spawnVars, sessVars, rosterVars, playerVars,
                   playerScores, puVars, astVars, weapons, sent, tickError>>

\* positions a player reports, in pixels: near each edge and mid-arena
ReportedX == {10, 400, canvasWidth - 10}
ReportedY == {10, 450, canvasHeight - 10}
Reported == {[x |-> Px(x), y |-> Px(y)] : x \in ReportedX, y \in ReportedY}

\* a match in which the proxy is displayed where its player last reported
InitInterpolate ==
    \E at \in Reported :
        InitWith([Fresh("Peer", Duel, OnePlayerEach) EXCEPT
                     !.remote = [NewRemotePlayer EXCEPT !.displayPos = at,
                                                        !.targetPos = at]])

NextInterpolate ==
    \/ \E at \in Reported :
          OnNetworkUpdate([x |-> at.x, y |-> at.y, alive |-> TRUE, shields |-> 0,
                           invulnerable |-> FALSE])
    \/ RemoteUpdate(1)

SpecInterpolate == InitInterpolate /\ [][NextInterpolate]_vars

\* C24: when the delta to the target exceeds half the arena on exactly one
\* axis, the next tick snaps only that axis; the other axis advances by
\* the smoothing step.
C24_OnlyWrappedAxisSnaps ==
    [][step'.op = "remoteUpdate" =>
          LET dx == remote.targetPos.x - remote.displayPos.x
              dy == remote.targetPos.y - remote.displayPos.y
              wx == Abs(dx) > xWrapThreshold
              wy == Abs(dy) > yWrapThreshold
          IN /\ (wx /\ ~wy) =>
                    /\ remote'.displayPos.x = remote.targetPos.x
                    /\ remote'.displayPos.y = remote.displayPos.y + smoothed(dy)
             /\ (wy /\ ~wx) =>
                    /\ remote'.displayPos.y = remote.targetPos.y
                    /\ remote'.displayPos.x = remote.displayPos.x + smoothed(dx)]_vars

\* C25: a proxy displayed at x = 10 that receives a target at
\* x = arenaWidth - 10 on the same y keeps its displayed position on
\* receipt, and the next tick puts it at arenaWidth - 10 exactly.
C25_EdgeToEdgeSnaps ==
    [][/\ step'.op = "onNetworkUpdate" => remote'.displayPos = remote.displayPos
       /\ (/\ step'.op = "remoteUpdate"
           /\ remote.displayPos.x = Px(10)
           /\ remote.targetPos.x = Px(canvasWidth - 10)
           /\ remote.targetPos.y = remote.displayPos.y)
          => remote'.displayPos = [x |-> Px(canvasWidth - 10), y |-> remote.displayPos.y]]_vars

C25_Witness ==
    /\ step.op = "remoteUpdate"
    /\ step.msg.was.x = Px(10)
    /\ step.msg.was.y = remote.targetPos.y
    /\ remote.displayPos.x = Px(canvasWidth - 10)
    /\ remote.targetPos = remote.displayPos

(***************************************************************************)
(* Timed power-up flags on the proxy and on the player it stands for      *)
(***************************************************************************)
\* this.multiShotDuration, invisibleDuration, reversedDuration of Player
playerDurations ==
    [invisible |-> invisibilityDuration, multiShot |-> multiShotDuration,
     reversed |-> reverseDuration]

\* flag = true; flagTime = 0: Player.activateMultiShot, activateInvisibility,
\* activateReverse, and the assignments of applyPowerUpToRemote and
\* handleReverseEffect on a RemotePlayer
setFlag(f, type) ==
    IF type = "INVISIBILITY" THEN [f EXCEPT !.invisible = TRUE, !.invisibleTime = 0]
    ELSE IF type = "MULTISHOT" THEN [f EXCEPT !.multiShot = TRUE, !.multiShotTime = 0]
    ELSE IF type = "REVERSE" THEN [f EXCEPT !.reversed = TRUE, !.reversedTime = 0]
    ELSE f

TimedTypes == {"INVISIBILITY", "MULTISHOT", "REVERSE"}

\* case 'powerup-collected' -> handlePowerUpCollected -> applyPowerUpToRemote
\* for the proxy (INVISIBILITY, MULTISHOT), and case 'reverse-effect' ->
\* handleReverseEffect with the proxy among the affected players (REVERSE)
FlagFromNetwork(type) ==
    /\ state[Holder] = "PLAYING"
    /\ sent < MaxSends
    /\ remote' = [remote EXCEPT !.flags = setFlag(@, type)]
    /\ sent' = sent + 1
    /\ step' = Step(IF type = "REVERSE" THEN "reverse-effect" ELSE "powerup-collected",
                    Holder, Host, NoMsg, type)
    /\ UNCHANGED <<timed, position, homing, winner, connVars, chan, spawnVars, sessVars, rosterVars, playerVars,
                   playerScores, puVars, astVars, weapons, tickError, ticks>>

\* the player picks the power-up up (applyPowerUp -> activate...) or is hit
\* by an opponent's reverse (handleReverseEffect, local branch)
PlayerActivate(type) ==
    /\ state[Host] = "PLAYING"
    /\ sent < MaxSends
    /\ timed' = setFlag(timed, type)
    /\ sent' = sent + 1
    /\ step' = Step("activate", Host, NoPeer, NoMsg, type)
    /\ UNCHANGED <<remote, position, homing, winner, connVars, chan, spawnVars, sessVars, rosterVars, playerVars,
                   playerScores, puVars, astVars, weapons, tickError, ticks>>

\* a frame of the holder's game loop: RemotePlayer.update(dt)
RemoteFrame(dt) ==
    /\ state[Holder] = "PLAYING"
    /\ remote' = remoteUpdate(remote, dt)
    /\ step' = Step("remoteFrame", Holder, NoPeer, [type |-> "tick", dt |-> dt], "")
    /\ UNCHANGED <<timed, position, homing, winner, connVars, chan, spawnVars, sessVars, rosterVars, playerVars,
                   playerScores, puVars, astVars, weapons, sent, tickError, ticks>>

\* a frame of the owner's game loop: the timed power-up block of
\* Player.update(dt)
PlayerFrame(dt) ==
    /\ state[Host] = "PLAYING"
    /\ timed' = updateFlags(timed, playerDurations, dt)
    /\ step' = Step("playerFrame", Host, NoPeer, [type |-> "tick", dt |-> dt], "")
    /\ UNCHANGED <<remote, position, homing, winner, connVars, chan, spawnVars, sessVars, rosterVars, playerVars,
                   playerScores, puVars, astVars, weapons, sent, tickError, ticks>>

\* frame lengths, in seconds
Dts == {2, 5}

NextTimed ==
    \/ \E type \in TimedTypes : FlagFromNetwork(type)
    \/ \E type \in TimedTypes : PlayerActivate(type)
    \/ \E dt \in Dts : RemoteFrame(dt)
    \/ \E dt \in Dts : PlayerFrame(dt)

SpecTimed == InitDuel /\ [][NextTimed]_vars

\* the game loop of a peer in a match keeps running frames
SpecTimedFair ==
    /\ SpecTimed
    /\ WF_vars(\E dt \in Dts : RemoteFrame(dt))
    /\ WF_vars(\E dt \in Dts : PlayerFrame(dt))

\* a flag that was on with elapsed time t is, after a frame of length dt,
\* off exactly when t + dt exceeds the duration
CountsDown(on, t, onAfter, tAfter, duration, dt) ==
    /\ on => (onAfter <=> t + dt <= duration)
    /\ (on /\ onAfter) => tAfter = t + dt
    /\ ~on => ~onAfter

FlagsCountDown(f, g, dur, dt) ==
    /\ CountsDown(f.invisible, f.invisibleTime, g.invisible, g.invisibleTime,
                  dur.invisible, dt)
    /\ CountsDown(f.multiShot, f.multiShotTime, g.multiShot, g.multiShotTime,
                  dur.multiShot, dt)
    /\ CountsDown(f.reversed, f.reversedTime, g.reversed, g.reversedTime,
                  dur.reversed, dt)

AnyFlag(f) == f.invisible \/ f.multiShot \/ f.reversed

\* C26: a timed flag set on a proxy by a network event counts down in the
\* proxy's own frames with the duration the owning player uses, and goes
\* off once the elapsed time exceeds it, without any further message.
C26_RemoteFlagsExpireLocally ==
    /\ [][/\ step'.op = "remoteFrame" =>
                FlagsCountDown(remote.flags, remote'.flags, playerDurations, step'.msg.dt)
          /\ step'.op = "playerFrame" =>
                FlagsCountDown(timed, timed', playerDurations, step'.msg.dt)]_vars
    /\ (remote.flags.invisible ~> ~remote.flags.invisible)
    /\ (remote.flags.multiShot ~> ~remote.flags.multiShot)
    /\ (remote.flags.reversed ~> ~remote.flags.reversed)

\* the proxy's invisibility has just run out in a frame, after two network
\* events and with its multi-shot still counting
C26_Witness ==
    /\ step.op = "remoteFrame"
    /\ sent = 2
    /\ ~remote.flags.invisible
    /\ remote.flags.multiShot /\ remote.flags.multiShotTime = multiShotDuration - 1
    /\ ~AnyFlag(timed)

(***************************************************************************)
(* Player.fire: which ammunition a shot uses                               *)
(***************************************************************************)
\* a match of two peers in which player 1 holds any combination of
\* one-shot ammunition
InitAmmo ==
    \E am \in SUBSET AmmoTypes :
        InitWith([Fresh("Peer", Duel, OnePlayerEach) EXCEPT
                     !.ast = TRUE,
                     !.ammo = [i \in PlayerIds |-> IF i = 1 THEN am ELSE {}]])

NextAmmo ==
    \E p \in Duel, target \in PlayerIds \cup {NoPlayer} :
        HandlePlayerFire(p, myPlayerId(p), target)

SpecAmmo == InitAmmo /\ [][NextAmmo]_vars

\* the order in which a shot looks for ammunition, and the result type of
\* each
Priority == << "REVERSE", "ASTEROID_CHASE", "BOMB", "LASER", "HOMING" >>
ResultOf ==
    [t \in AmmoTypes |->
        CASE t = "REVERSE" -> "reverse"
          [] t = "ASTEROID_CHASE" -> "asteroidChase"
          [] t = "BOMB" -> "bomb"
          [] t = "LASER" -> "laser"
          [] t = "HOMING" -> "homing"]
\* index in Priority of the first ammunition held, 0 if none is held
First(am) ==
    IF \E i \in 1 .. Len(Priority) : Priority[i] \in am
    THEN Min({i \in 1 .. Len(Priority) : Priority[i] \in am})
    ELSE 0
Fired(st) == st.op = "handlePlayerFire"

\* C27 as stated: a shot uses the highest-priority ammunition held and
\* clears exactly that one flag.
C27_ClearsExactlyOneFlag ==
    [][Fired(step') =>
          LET p == step'.peer
              id == myPlayerId(p)
              am == ammo[p][id]
              i == First(am)
          IN /\ step'.out = IF i = 0 THEN "bullets" ELSE ResultOf[Priority[i]]
             /\ ammo'[p][id] = IF i = 0 THEN am ELSE am \ {Priority[i]}]_vars

\* C27 amended: a shot uses the highest-priority ammunition held and clears
\* that flag; a bomb fired while homing is held also clears homing (the bomb
\* homes); every other flag is unchanged.
C27_ClearsUsedAmmo ==
    [][Fired(step') =>
          LET p == step'.peer
              id == myPlayerId(p)
              am == ammo[p][id]
              i == First(am)
          IN /\ step'.out = IF i = 0 THEN "bullets" ELSE ResultOf[Priority[i]]
             /\ ammo'[p][id] =
                   IF i = 0 THEN am
                   ELSE IF Priority[i] = "BOMB" THEN am \ {"BOMB", "HOMING"}
                   ELSE am \ {Priority[i]}
             /\ \A q \in Peers, j \in PlayerIds :
                   <<q, j>> # <<p, id>> => ammo'[q][j] = ammo[q][j]]_vars

\* player 1 fired a bomb and then a laser and holds nothing else, although
\* nothing but these two shots took ammunition away
C27_Witness ==
    /\ step.op = "handlePlayerFire" /\ step.peer = Host /\ step.out = "laser"
    /\ sent = 2
    /\ weapons[Host] = {<<1, "bomb">>, <<1, "laser">>}
    /\ ammo[Host][1] = {}

(***************************************************************************)
(* Local mode: two players on one machine fly into each other             *)
(***************************************************************************)
\* speed * dt of a frame: the slowest speed level (80 pixels a second) in a
\* frame of an eighth of a second
stride == Px(10)

\* wrapPosition(x, y, canvasWidth, canvasHeight)
wrapPosition(q) ==
    [q EXCEPT !.x = IF @ < 0 THEN Px(canvasWidth)
                    ELSE IF @ > Px(canvasWidth) THEN 0 ELSE @,
              !.y = IF @ < 0 THEN Px(canvasHeight)
                    ELSE IF @ > Px(canvasHeight) THEN 0 ELSE @]

\* the movement of Player.update(dt) for a player flying straight on
advance(q) == wrapPosition([q EXCEPT !.x = @ + q.dir.x * stride, !.y = @ + q.dir.y * stride])

\* the loop over the local players in Game.update: a dead player stays
movePlayers(p, g) ==
    [g EXCEPT !.pos = [i \in PlayerIds |->
                          IF i \in myPlayerIds[p] /\ g.al[i] THEN advance(@[i]) ELSE @[i]]]

\* Game.update of a machine with two local players, in a frame in which no
\* projectile, asteroid or shard touches anything: the players move, then
\* collisionSystem.checkAll() runs
LocalFrame(p) ==
    /\ state[p] = "PLAYING"
    /\ Cardinality(myPlayerIds[p]) >= 2
    /\ ticks < MaxTicks
    /\ Commit(p, checkAll(p, {}, movePlayers(p, TickState(p))), "frame", {})

\* where two players flying at each other start: mid-arena, and on either
\* side of the edge where the arena wraps round (pixels along the axis)
\* <<where A starts, where B starts, the way A flies>>
Approaches(size) ==
    {<<690, 740, 1>>, <<700, 730, 1>>, <<size - 20, 15, 1>>, <<25, size - 10, -1>>}

HeadOn(axis, ap, sA, sB) ==
    LET fwd == ap[3]
        a == IF axis = "x"
             THEN [x |-> Px(ap[1]), y |-> Px(450), dir |-> [x |-> fwd, y |-> 0]]
             ELSE [x |-> Px(450), y |-> Px(ap[1]), dir |-> [x |-> 0, y |-> fwd]]
        b == IF axis = "x"
             THEN [x |-> Px(ap[2]), y |-> Px(450), dir |-> [x |-> 0 - fwd, y |-> 0]]
             ELSE [x |-> Px(450), y |-> Px(ap[2]), dir |-> [x |-> 0, y |-> 0 - fwd]]
    IN [Fresh("Local", {Host}, [p \in Peers |-> LocalIds]) EXCEPT
           !.shields = [i \in PlayerIds |-> IF i = 1 THEN sA ELSE IF i = 2 THEN sB ELSE 0],
           !.position = [i \in PlayerIds |-> IF i = 1 THEN a ELSE IF i = 2 THEN b
                                             ELSE AtOrigin[i]]]

InitHeadOn ==
    \E axis \in {"x", "y"}, sA \in 0 .. 2, sB \in 0 .. 1 :
        \E ap \in Approaches(IF axis = "x" THEN canvasWidth ELSE canvasHeight) :
            InitWith(HeadOn(axis, ap, sA, sB))

NextHeadOn == LocalFrame(Host)

SpecHeadOn == InitHeadOn /\ [][NextHeadOn]_vars

\* the two local players, and where each is once Player.update has moved it
PlayerA == Min(LocalIds)
PlayerB == CHOOSE i \in LocalIds : i # PlayerA
Moved(i) == IF alive[Host][i] THEN advance(position[i]) ELSE position[i]
\* the frame about to run finds the two players touching
Collide ==
    /\ alive[Host][PlayerA] /\ alive[Host][PlayerB]
    /\ ~invulnerable[Host][PlayerA] /\ ~invulnerable[Host][PlayerB]
    /\ getDistance(Moved(PlayerA), Moved(PlayerB)) < 2 * Px(playerRadius)
\* the distance between the two, the short way round the arena
Apart(a, b) == getDistance(a, b)
Quiet ==
    /\ shrapnel' = shrapnel /\ asteroid' = asteroid /\ activeAsteroid' = activeAsteroid
    /\ powerUps' = powerUps /\ activePowerUps' = activePowerUps /\ chan' = chan

\* C28: shielded A (one shield) and unshielded B collide head-on in local
\* mode: B dies, A's shield count drops to 0, A is moved away from B along
\* the line through both, and nothing else happens in the arena.
C28_ShieldedSurvivesAndBounces ==
    [][(step'.op = "frame" /\ Collide /\ shields[Host][PlayerA] = 1
                           /\ shields[Host][PlayerB] = 0)
       => /\ ~alive'[Host][PlayerB]
          /\ alive'[Host][PlayerA]
          /\ shields'[Host][PlayerA] = 0
          /\ position'[PlayerB].x = Moved(PlayerB).x
          /\ position'[PlayerB].y = Moved(PlayerB).y
          /\ Apart(position'[PlayerA], position'[PlayerB])
                = Apart(Moved(PlayerA), Moved(PlayerB)) + Px(playerPushDistance)
          /\ Quiet]_vars

\* C29: two unshielded local players collide head-on: both die and no score
\* changes.
C29_MutualDestruction ==
    [][(step'.op = "frame" /\ Collide /\ shields[Host][PlayerA] = 0
                           /\ shields[Host][PlayerB] = 0)
       => /\ ~alive'[Host][PlayerA]
          /\ ~alive'[Host][PlayerB]
          /\ playerScores' = playerScores
          /\ ~matchWon'[Host]]_vars

\* both players lie dead after the frame in which they met
C29_Witness ==
    /\ step.op = "frame"
    /\ step.msg.died = {<<PlayerA, NoPlayer>>, <<PlayerB, NoPlayer>>}
    /\ ~alive[Host][PlayerA] /\ ~alive[Host][PlayerB]
    /\ playerScores[Host] = NoScores
    /\ getDistance(position[PlayerA], position[PlayerB]) < 2 * Px(playerRadius)

(***************************************************************************)
(* HomingMissile.update: steering toward the target                        *)
(***************************************************************************)
RECURSIVE normalizeAngle(_)
\* while (angle < 0) angle += 2 PI; while (angle >= 2 PI) angle -= 2 PI
normalizeAngle(angle) ==
    IF angle < 0 THEN normalizeAngle(angle + 2 * Pi)
    ELSE IF angle >= 2 * Pi THEN normalizeAngle(angle - 2 * Pi)
    ELSE angle

RECURSIVE getAngleDifference(_, _)
\* diff = angle2 - angle1, brought into [-PI, PI]
getAngleDifference(angle1, angle2) ==
    LET diff == angle2 - angle1
    IN IF diff < 0 - Pi THEN getAngleDifference(angle1, angle2 + 2 * Pi)
       ELSE IF diff > Pi THEN getAngleDifference(angle1, angle2 - 2 * Pi)
       ELSE diff

\* the Player whose timed flags are followed, and its invisible flag
invisibleOf(i) == i = Stood /\ timed.invisible

steersBlind(p, target) == target # NoPlayer /\ alive[p][target]
\* this.targetPlayer && this.targetPlayer.alive && !this.targetPlayer.invisible
steers(p, target) == target # NoPlayer /\ alive[p][target] /\ ~invisibleOf(target)

\* the steering block of HomingMissile.update: targetAngle is
\* Math.atan2(dy, dx) toward the target, maxTurn = turnSpeed * dt
turnTowards(angle, targetAngle, maxTurn) ==
    LET angleDiff == getAngleDifference(angle, targetAngle)
    IN IF Abs(angleDiff) < maxTurn THEN targetAngle
       ELSE IF angleDiff > 0 THEN angle + maxTurn
       ELSE IF angleDiff < 0 THEN angle - maxTurn
       ELSE angle

\* WeaponManager.update: homingMissiles.filter(m => m.update(dt, ...)) for
\* the missile in flight at peer p, in a frame of ms milliseconds in which
\* the target lies at bearing targetAngle from the missile.  The missile's
\* position is not followed.
HomingUpdate(p, ms, targetAngle) ==
    /\ state[p] = "PLAYING"
    /\ homing.peer = p
    /\ <<homing.owner, "homing">> \in weapons[p]
    /\ LET age == homing.age + ms
           expired == age > missileLifetime * 1000
           turning == ~expired /\ steers(p, homing.target)
           maxTurn == (missileTurnSpeed * ms) \div 1000
       IN /\ homing' = [homing EXCEPT
                           !.age = age,
                           !.angle = IF expired THEN @
                                     ELSE IF turning
                                     THEN normalizeAngle(turnTowards(@, targetAngle, maxTurn))
                                     ELSE normalizeAngle(@)]
          /\ weapons' = IF expired
                         THEN [weapons EXCEPT ![p] = @ \ {<<homing.owner, "homing">>}]
                         ELSE weapons
          /\ step' = Step("homingUpdate", p, NoPeer,
                          [type |-> "tick", ms |-> ms, bearing |-> targetAngle],
                          IF expired THEN "expired" ELSE IF turning THEN "steer" ELSE "coast")
    /\ UNCHANGED <<remote, timed, position, winner, connVars, chan, spawnVars, sessVars, rosterVars,
                   playerVars, playerScores, puVars, astVars, sent, tickError, ticks>>

\* the player who fires and the player fired at, both on one machine
Shooter == CHOOSE i \in LocalIds : i # Stood
Target == Stood

\* bearings from the missile to the target, in milliradians, and the
\* length of a frame in milliseconds
Bearings == {0, Pi \div 2, Pi, Pi + Pi \div 2}
FrameMs == 500

\* local mode; the shooter has picked up HOMING
InitHoming ==
    InitWith([Fresh("Local", {Host}, [p \in Peers |-> LocalIds]) EXCEPT
                 !.ammo = [i \in PlayerIds |-> IF i = Shooter THEN {"HOMING"} ELSE {}]])

NextHoming ==
    \/ HandlePlayerFire(Host, Shooter, Target)
    \/ \E b \in Bearings : HomingUpdate(Host, FrameMs, b)
    \/ PlayerActivate("INVISIBILITY")
    \/ PlayerFrame(5)

SpecHoming == InitHoming /\ [][NextHoming]_vars

\* C30: a homing missile fired at B in local mode does not change its
\* heading in any update during which B is invisible.
C30_NoSteeringAtInvisibleTarget ==
    [][(/\ step'.op = "homingUpdate"
        /\ homing.owner = Shooter /\ homing.target = Target
        /\ timed.invisible)
       => homing'.angle = homing.angle]_vars

\* the missile, fired at B, has turned while B was visible and has then
\* coasted through an update with B invisible
C30_Witness ==
    /\ step.op = "homingUpdate" /\ step.out = "coast"
    /\ homing.owner = Shooter /\ homing.target = Target
    /\ "HOMING" \notin ammo[Host][Shooter]
    /\ timed.invisible
    /\ homing.angle # 0
    /\ step.msg.bearing # homing.angle

(***************************************************************************)
(* Asteroid.takeDamage called directly on a fresh asteroid                 *)
(***************************************************************************)
MaxHits == 6
\* the damage of a bullet and of a homing missile
Amounts == {1, missileAsteroidDamage}
\* hitX, hitY: given (the dent is drawn and the size shrinks) or undefined
HitPoints == {"given", "undefined"}

\* local play with one fresh asteroid on the map
InitDamage ==
    InitWith([Fresh("Local", {Host}, [p \in Peers |-> LocalIds]) EXCEPT !.ast = TRUE])

\* asteroid.takeDamage(hitX, hitY, amount); step.out keeps the amounts of
\* the calls made so far, step.msg the health before the call
TakeDamage(hit, amount) ==
    LET calls == IF step.op = "takeDamage" THEN step.out ELSE << >> IN
    /\ asteroid[Host].present
    /\ Len(calls) < MaxHits
    /\ asteroid' = [asteroid EXCEPT ![Host] = takeDamage(@, amount)]
    /\ step' = Step("takeDamage", Host, NoPeer,
                    [hit |-> hit, amount |-> amount, was |-> asteroid[Host]],
                    Append(calls, amount))
    /\ UNCHANGED <<kinVars, connVars, chan, spawnVars, sessVars, rosterVars, playerVars,
                   playerScores, puVars, shrapnel, weapons, sent, tickError, ticks>>

NextDamage == \E hit \in HitPoints, amount \in Amounts : TakeDamage(hit, amount)

SpecDamage == InitDamage /\ [][NextDamage]_vars

\* every call so far took one point
OnesOnly(calls) == \A k \in 1 .. Len(calls) : calls[k] = 1

\* C31: a fresh asteroid (health 5) hit by takeDamage(x, y, 1) calls only
\* is alive after each of the first four calls and not alive after the
\* fifth: after n such calls it is alive exactly when n < 5, and the call
\* that ends it is the fifth.
C31_FifthHitDestroys ==
    (step.op = "takeDamage" /\ OnesOnly(step.out)) =>
        /\ asteroid[Host].health = asteroidHealth - Len(step.out)
        /\ asteroid[Host].alive <=> Len(step.out) < 5
        /\ (step.msg.was.alive /\ ~asteroid[Host].alive) => Len(step.out) = 5

\* the fifth single-point hit with hit coordinates has just ended the asteroid
C31_Witness ==
    /\ step.op = "takeDamage"
    /\ step.out = <<1, 1, 1, 1, 1>>
    /\ step.msg.hit = "given"
    /\ step.msg.was.alive
    /\ ~asteroid[Host].alive

(***************************************************************************)
(* The asteroid chase: Asteroid.update                                     *)
(***************************************************************************)
\* GAME_SETTINGS.powerups.asteroidChase.duration, in seconds
chaseDuration == 100

\* chaseTarget.invisible as peer p sees it: the Player object at its owner,
\* the RemotePlayer object at the holder of the proxy
invisibleAt(p, i) ==
    /\ i = Stood
    /\ IF p = Host THEN timed.invisible ELSE remote.flags.invisible

\* the chase timer block of Asteroid.update: the chase ends when the target
\* is not alive or the chase has lasted chaseDuration
updateChase(a, targetAlive, dt) ==
    IF a.chase = NoPlayer THEN a
    ELSE [a EXCEPT !.chaseTime = @ + dt,
                   !.chase = IF ~targetAlive \/ a.chaseTime + dt >= chaseDuration
                             THEN NoPlayer ELSE @]

\* the condition of the steering block of Asteroid.update
\* this.chaseActive && this.chaseTarget && this.chaseTarget.alive
\*     && !this.chaseTarget.invisible
chaseSteers(p, a) ==
    a.chase # NoPlayer /\ alive[p][a.chase] /\ ~invisibleAt(p, a.chase)

\* EntityManager.updateAsteroid in a tick in which asteroid.update(dt)
\* returns true.  Position and heading of the asteroid are not followed:
\* step.out tells whether the update turned the asteroid toward the target.
AsteroidUpdate(p, dt) ==
    /\ state[p] = "PLAYING"
    /\ asteroid[p].present
    /\ asteroid[p].alive
    /\ LET a == updateChase(asteroid[p],
                            asteroid[p].chase # NoPlayer /\ alive[p][asteroid[p].chase], dt)
       IN /\ asteroid' = [asteroid EXCEPT ![p] = a]
          /\ step' = Step("asteroidUpdate", p, NoPeer,
                          [type |-> "tick", dt |-> dt, was |-> asteroid[p]],
                          IF chaseSteers(p, a) THEN "steer" ELSE "drift")
    /\ UNCHANGED <<kinVars, connVars, chan, spawnVars, sessVars, rosterVars, playerVars,
                   playerScores, puVars, shrapnel, weapons, sent, tickError, ticks>>

\* frame lengths of the asteroid, in seconds
ChaseDts == {40, 60}

\* the player who sends the asteroid after the player whose flags are followed
Chaser == myPlayerId(Holder)

\* online duel with an asteroid on the map; the client has picked up
\* ASTEROID_CHASE
InitChase ==
    InitWith([Fresh("Peer", Duel, OnePlayerEach) EXCEPT
                 !.ast = TRUE,
                 !.ammo = [i \in PlayerIds |-> IF i = Chaser THEN {"ASTEROID_CHASE"} ELSE {}]])

NextChase ==
    \/ HandlePlayerFire(Holder, Chaser, Stood)
    \/ RecvAsteroidChase(Host, Holder)
    \/ PlayerActivate("INVISIBILITY")
    \/ FlagFromNetwork("INVISIBILITY")
    \/ PlayerFrame(5)
    \/ RemoteFrame(5)
    \/ CheckAll(Host, {"asteroid-player"})
    \/ \E p \in Duel, dt \in ChaseDts : AsteroidUpdate(p, dt)

SpecChase == InitChase /\ [][NextChase]_vars

\* C32: an asteroid in chase mode stops chasing as soon as its target dies or
\* the target's invisibility is activated: after an update of an asteroid
\* that was chasing a target which is dead or invisible, the chase is not
\* active.
C32_ChaseEndsOnDeathOrInvisibility ==
    (/\ step.op = "asteroidUpdate"
     /\ step.msg.was.chase # NoPlayer
     /\ \/ ~alive[step.peer][step.msg.was.chase]
        \/ invisibleAt(step.peer, step.msg.was.chase))
        => asteroid[step.peer].chase = NoPlayer

(***************************************************************************)
(* Scores and the winner across the peers                                  *)
(***************************************************************************)
\* the peers in the match
InMatch == {p \in Peers : state[p] = "PLAYING"}

\* C33: each death with a known attacker raises the attacker's score by one
\* on every peer, so that once no message is in flight all peers in the
\* match hold the same score for every player.
C33_ScoresAgreeWhenDelivered ==
    InFlight = 0 =>
        \A p \in InMatch, q \in InMatch : playerScores[p] = playerScores[q]

\* A duel in which both players are one kill short of winScore on both
\* peers and both have bullets in the air.
InitShowdown ==
    InitWith([Fresh("Peer", Duel, OnePlayerEach) EXCEPT
                 !.scores = [i \in PlayerIds |-> IF i \in {1, 2} THEN winScore - 1 ELSE 0],
                 !.weapons = {<<1, "bullets">>, <<2, "bullets">>}])

NextShowdown ==
    \/ \E p \in Duel : CheckAll(p, {"weapon-player"})
    \/ \E p \in Duel : \E k \in players[p] \ myPlayerIds[p] :
          BroadcastDeath(p, myPlayerId(p), k)
    \/ \E p \in Duel, from \in Duel : RecvPlayerDied(p, from)

SpecShowdown == InitShowdown /\ [][NextShowdown]_vars

\* C34: all peers that mark the match as won name the same winner, also
\* when two players on different peers kill each other while each is one
\* point short of winScore.
C34_SameWinnerEverywhere ==
    \A p \in Peers, q \in Peers :
        (matchWon[p] /\ matchWon[q]) => winner[p] = winner[q]

(***************************************************************************)
(* The asteroid's health on a peer that joins late                         *)
(***************************************************************************)
\* peer p shows the asteroid the spawn authority holds
HoldsAuthorityAsteroid(p) ==
    /\ asteroid[Host].present
    /\ asteroid[p].present
    /\ asteroid[p].id = asteroid[Host].id

\* C35: once no message is in flight, every peer that holds the asteroid
\* has the same asteroid health as the spawn authority, also a client that
\* joined after the asteroid had taken damage.
C35_AsteroidHealthAgrees ==
    InFlight = 0 =>
        \A p \in Peers :
            HoldsAuthorityAsteroid(p) => asteroid[p].health = asteroid[Host].health

(***************************************************************************)
(* asteroid-destroyed announcements of the host                            *)
(***************************************************************************)
\* the asteroid-destroyed messages on the way from the host to client c
DestroyedInFlight(ch, c) ==
    Cardinality({k \in 1 .. Len(ch[<<Host, c>>]) :
                    ch[<<Host, c>>][k].type = "asteroid-destroyed"})

\* C36: for each asteroid it has spawned the host sends asteroid-destroyed
\* at most once.  notifyAsteroidDestroyed clears activeAsteroid with the
\* first announcement, so: no step of the host puts more than one
\* asteroid-destroyed on a connection, and none at all when the authority
\* has no active asteroid.
C36_DestroyedSentOnce ==
    [][\A c \in Clients :
          DestroyedInFlight(chan', c) - DestroyedInFlight(chan, c)
              <= (IF activeAsteroid THEN 1 ELSE 0)]_vars

(***************************************************************************)
(* Two clients join a host at the same time: the proxies every peer holds  *)
(***************************************************************************)
\* online, the host alone has started its match
InitLobby == InitWith(Fresh("Peer", {Host}, OnePlayerEach))

NextLobby ==
    \/ \E c \in Clients : Connect(c)
    \/ \E c \in Clients : OpenAtClient(c)
    \/ \E c \in Clients : OpenAtHost(c)
    \/ \E p \in Peers, from \in Peers : RecvJoinRequest(p, from)
    \/ \E p \in Peers, from \in Peers : RecvJoinAccepted(p, from)
    \/ \E p \in Peers, from \in Peers : RecvGameState(p, from)
    \/ \E p \in Peers, from \in Peers : RecvPlayerJoined(p, from)

SpecLobby == InitLobby /\ [][NextLobby]_vars

\* the peers whose connect() has resolved, and the players they control
InSession == {p \in Peers : promise[p] = "resolved"}
SessionPlayers == UNION {myPlayerIds[p] : p \in InSession}

\* PlayerManager.getRemotePlayers: the proxies peer p holds.  players is a
\* Map keyed by player id, so a peer holds at most one entity per id.
getRemotePlayers(p) == players[p] \ myPlayerIds[p]

\* C37: once the joins under way have completed and no message is in
\* flight, every peer in the session holds a proxy for each player of the
\* other peers and for nobody else, and its own player is in its player
\* list as a local player; what a joining client learned before its match
\* started is there as well.
C37_ProxiesForEveryOtherPlayer ==
    (InFlight = 0 /\ \A c \in Clients : promise[c] # "pending") =>
        \A p \in InSession :
            /\ getRemotePlayers(p) = SessionPlayers \ myPlayerIds[p]
            /\ myPlayerIds[p] = {myPlayerId(p)}
            /\ myPlayerIds[p] \subseteq players[p]

\* both clients have joined, everything is delivered, and the last message
\* handled was a player-joined
C37_Witness ==
    /\ InFlight = 0
    /\ InSession = Peers
    /\ \A p \in Peers : state[p] = "PLAYING" /\ Cardinality(getRemotePlayers(p)) = 2
    /\ step.op = "player-joined"

(***************************************************************************)
(* The promise of connect() when the host goes away during the handshake   *)
(***************************************************************************)
NextConnect ==
    \/ \E c \in Clients : Connect(c)
    \/ \E c \in Clients : ConnectRejected(c)
    \/ \E c \in Clients : ConnError(c)
    \/ \E c \in Clients : OpenAtClient(c)
    \/ \E c \in Clients : OpenAtHost(c)
    \/ \E p \in Peers, from \in Peers : RecvJoinRequest(p, from)
    \/ \E p \in Peers, from \in Peers : RecvJoinAccepted(p, from)
    \/ \E p \in Peers, from \in Peers : RecvGameState(p, from)
    \/ \E p \in Peers, from \in Peers : RecvPlayerJoined(p, from)
    \/ ReturnToMenu(Host)
    \/ \E p \in Peers, from \in Peers : ConnClose(p, from)

SpecConnect == InitLobby /\ [][NextConnect]_vars

\* the event loop of every peer dispatches the events that are pending:
\* 'open' and 'close' of a connection and the messages that have arrived.
\* What the users and the transport do (connect, leave, fail) is free.
SpecConnectFair ==
    /\ SpecConnect
    /\ WF_vars(\E c \in Clients : OpenAtClient(c))
    /\ WF_vars(\E c \in Clients : OpenAtHost(c))
    /\ WF_vars(\E p \in Peers, from \in Peers : RecvJoinRequest(p, from))
    /\ WF_vars(\E p \in Peers, from \in Peers : RecvJoinAccepted(p, from))
    /\ WF_vars(\E p \in Peers, from \in Peers : RecvGameState(p, from))
    /\ WF_vars(\E p \in Peers, from \in Peers : RecvPlayerJoined(p, from))
    /\ WF_vars(\E p \in Peers, from \in Peers : ConnClose(p, from))

\* C38: every connect() call eventually resolves with a player id or
\* rejects, also when the connection closes before join-accepted arrives.
C38_ConnectSettles ==
    \A c \in Clients :
        (promise[c] = "pending") ~> (promise[c] \in {"resolved", "rejected"})

(***************************************************************************)
(* A client leaves: the 'close' event of its own connection                *)
(***************************************************************************)
\* Game.returnToMenu at client c where peer.destroy() dispatches 'close' on
\* the connection it closes ("emitted when either you or the remote peer
\* closes the data connection"): the handler registered in connect() runs
\* handleDisconnect inside the call, whose client branch raises the
\* player-left event with the host flag; handlePlayerLeft then calls
\* returnToMenu again, which changes nothing any more.
ReturnToMenuOwnClose(c) ==
    /\ c \in Clients
    /\ Host \in connections[c]
    /\ leaveMatch(c, PlayerLeftEvent(HostEventId, TRUE))

\* an online match with traffic that any peer may leave; whether the
\* leaving side's own connection reports its closing is up to the transport
NextOwnLeave ==
    \/ \E p \in Peers : ReturnToMenu(p)
    \/ \E c \in Clients : ReturnToMenuOwnClose(c)
    \/ \E p \in Peers, from \in Peers : ConnClose(p, from)
    \/ \E p \in Peers : SendPlayerUpdate(p)
    \/ \E p \in Peers, from \in Peers : RecvPlayerUpdate(p, from)

SpecOwnLeave == InitOnline /\ [][NextOwnLeave]_vars

\* C39: a client is told that the host left (the player-left event with
\* the host flag) only by the close handler of a connection that the host
\* side has torn down, never in the course of its own return to the menu.
C39_HostLeftOnlyWhenHostLost ==
    [][\A c \in Clients :
          (step'.peer = c /\ step'.msg = PlayerLeftEvent(HostEventId, TRUE)) =>
              (step'.op = "close" /\ ~connected[Host])]_vars

(***************************************************************************)
(* Kills by one's own weapon                                               *)
(***************************************************************************)
\* the deaths of a tick were all caused by the victim's own weapon
OnlySelfKills(st) ==
    /\ IsCombatTick(st)
    /\ st.msg.died # {}
    /\ \A d \in st.msg.died : d[1] = d[2]

\* C40: no player's score increases through that player's own death: a
\* tick whose only deaths are players killed by their own bomb blast or
\* their own homing missile changes no score on the peer that ran it.
C40_SelfKillAwardsNoPoint ==
    [][OnlySelfKills(step') => playerScores' = playerScores]_vars


====
